---- MODULE Spec2Model ----
(***************************************************************************)
(* A model of the deployment-script analyzer (internal/analyzer).          *)
(*                                                                         *)
(* Text.  A Go string is modelled as a sequence of symbols.  A symbol is   *)
(* one character ("-", "=", "/", ...) or one whole word that the analyzer  *)
(* never looks inside ("tc_util", "input", "echo", ".exe").  No word of    *)
(* the alphabet used here starts with another symbol the code searches     *)
(* for, so "the text p occurs in s" is "the symbol sequence p occurs in s".*)
(*                                                                         *)
(* File system.  The repository below source_code_root is a finite tree of *)
(* entries; the script files and the stylesheet manifests are read through *)
(* scriptFiles and manifests.                                              *)
(***************************************************************************)
EXTENDS Integers, Sequences, FiniteSets, TLC

\* ------------------------------------------------------------------ bounds
\* Longest script file, in physical lines.
MaxLines == 2
\* Longest list of configured scripts.
MaxScripts == 2
\* Most entries below the root of a repository.
MaxEntries == 3
\* Longest list of ignore patterns.
MaxPatterns == 2
\* Most path values handed to compareFilesWithScripts.
MaxValid == 2
\* Longest list of configured scripts handed to checkScriptParity.
MaxParityScripts == 3
\* Most calls of trackExecutable in a row.
MaxTracked == 3
MaxPathKeys == 3
MaxManifestLines == 2
MaxFindings == 2

VARIABLES
    params,                 \* the configuration handed to Run
    runtimeOS,              \* runtime.GOOS
    scriptFiles,            \* file name -> its lines, or NoFile
    manifests,              \* repository entry -> the lines of a stylesheet manifest
    tree,                   \* repository entry -> status
    analysisResult,         \* analysisResult.File
    scriptExecutables,      \* script -> set of executable names
    currentScriptTargetOS,
    convertFrom,
    convertTo,
    ignores,
    pc,                     \* where Run stands
    idx,                    \* index of the script Run is working on
    lineNumber,             \* checkFileSyntax's scanner position
    log,                    \* what the logger was asked to write
    call                    \* a function called on its own: arguments and results

vars == <<params, runtimeOS, scriptFiles, manifests, tree, analysisResult,
          scriptExecutables, currentScriptTargetOS, convertFrom, convertTo, ignores,
          pc, idx, lineNumber, log, call>>

\* What the analyzer reads and never writes
env == <<params, runtimeOS, scriptFiles, manifests, tree>>

\* ------------------------------------------------------------------- text
Quote == "\""
Backslash == "\\"
Slash == "/"
Whitespace == {" ", "\t"}

Min(S) == CHOOSE x \in S : \A y \in S : x <= y
Max(S) == CHOOSE x \in S : \A y \in S : y <= x

\* strings.HasPrefix(s[i:], pat), positions counted from 1
HasPrefixAt(s, pat, i) ==
    /\ i >= 1
    /\ i + Len(pat) - 1 <= Len(s)
    /\ \A k \in 1..Len(pat) : s[i + k - 1] = pat[k]

HasPrefix(s, pat) == HasPrefixAt(s, pat, 1)
HasSuffix(s, pat) == Len(pat) <= Len(s) /\ HasPrefixAt(s, pat, Len(s) - Len(pat) + 1)

\* strings.Contains
Contains(s, pat) == \E i \in 1..(Len(s) + 1) : HasPrefixAt(s, pat, i)

TrimPrefix(s, pat) == IF HasPrefix(s, pat) THEN SubSeq(s, Len(pat) + 1, Len(s)) ELSE s
TrimSuffix(s, pat) == IF HasSuffix(s, pat) THEN SubSeq(s, 1, Len(s) - Len(pat)) ELSE s

\* strings.TrimSpace
TrimSpace(s) ==
    LET keep == {k \in 1..Len(s) : s[k] \notin Whitespace}
    IN  IF keep = {} THEN <<>> ELSE SubSeq(s, Min(keep), Max(keep))

\* strings.ReplaceAll(s, old, new) for a separator old of one character.  With
\* old = "" no symbol equals it and s is returned as it is, which is what Go
\* does when new = "" as well (the only case in which Run passes old = "").
ReplaceAll(s, old, new) == [k \in 1..Len(s) |-> IF s[k] = old THEN new ELSE s[k]]

\* strings.Fields(s)[0]: the first whitespace-delimited word of a trimmed line
FirstField(s) ==
    LET ws == {k \in 1..Len(s) : s[k] \in Whitespace}
    IN  IF ws = {} THEN s ELSE SubSeq(s, 1, Min(ws) - 1)

\* strings.ToLower, symbol by symbol
LowerOf(c) ==
    CASE c = "TC_UTIL" -> "tc_util"
      [] c = "ECHO"    -> "echo"
      [] c = ".EXE"    -> ".exe"
      [] OTHER         -> c
ToLower(s) == [k \in 1..Len(s) |-> LowerOf(s[k])]

\* ------------------------------------------------------------------- maps
\* A Go map is a function with a finite domain.
EmptyMap == [k \in {} |-> <<>>]
Put(m, k, v) == [x \in DOMAIN m \cup {k} |-> IF x = k THEN v ELSE m[x]]

\* sort.Ints over the keys of a map
RECURSIVE SortedSeq(_)
SortedSeq(S) == IF S = {} THEN <<>> ELSE <<Min(S)>> \o SortedSeq(S \ {Min(S)})

\* -------------------------------------------------------------- log lines
\* One call of the logger: its level, its template (shortened), and the
\* values of the placeholders the model follows.
LogRec(level, msg, file, ln, val) ==
    [level |-> level, msg |-> msg, file |-> file, ln |-> ln, val |-> val]

\* ------------------------------------------------- syntax.go: the patterns
\* initializeRegexPatterns: `-flagname`
FlagPattern(flagName) == <<"-">> \o flagName
\* initializeRegexPatterns: `-flagname="([^"]+)"`, up to the opening quote
ValuePrefix(flagName) == <<"-">> \o flagName \o <<"=", Quote>>

\* Where `[^"]+"` ends when the value starts at vs: the first quote at or after
\* vs, and 0 when there is none.
ClosingQuote(s, vs) ==
    LET qs == {q \in vs..Len(s) : s[q] = Quote}
    IN  IF qs = {} THEN 0 ELSE Min(qs)

\* The pattern prefix([^"]+)" matches s at position i.
ValueMatchAt(s, prefix, i) ==
    /\ HasPrefixAt(s, prefix, i)
    /\ ClosingQuote(s, i + Len(prefix)) > i + Len(prefix)

\* re.FindStringSubmatch(line) for parameterFlagPatterns[flagName]
FindFlag(line, flagName) ==
    IF Contains(line, FlagPattern(flagName)) THEN <<FlagPattern(flagName)>> ELSE <<>>

\* FindValue reading the whole match where the code reads the group
FindValueWholeMatch(line, flagName) ==
    LET prefix == ValuePrefix(flagName)
        starts == {i \in 1..Len(line) : ValueMatchAt(line, prefix, i)}
    IN  IF starts = {} THEN <<>>
        ELSE LET i == Min(starts)
                 q == ClosingQuote(line, i + Len(prefix))
             IN  <<SubSeq(line, i, q), SubSeq(line, i, q)>>

\* re.FindStringSubmatch(line) for parameterValuePatterns[flagName]: the
\* leftmost match, as <<whole match, group 1>>, or the empty result.
FindValue(line, flagName) ==
    LET prefix == ValuePrefix(flagName)
        starts == {i \in 1..Len(line) : ValueMatchAt(line, prefix, i)}
    IN  IF starts = {} THEN <<>>
        ELSE LET i  == Min(starts)
                 vs == i + Len(prefix)
                 q  == ClosingQuote(line, vs)
             IN  <<SubSeq(line, i, q), SubSeq(line, vs, q - 1)>>

StylesheetUtility == "install_xml_stylesheet_datasets"
InputPrefix == <<"-", "input", "=", Quote>>
FilepathPrefix == <<"-", "filepath", "=", Quote>>

\* stylesheetFlagsRegex.FindAllStringSubmatch(line, -1) from position pos on:
\* the successive non-overlapping matches, each as <<group 1, group 2>>.
RECURSIVE FindAllStylesheetFlags(_, _)
FindAllStylesheetFlags(line, pos) ==
    LET starts == {i \in pos..Len(line) :
                      \/ ValueMatchAt(line, InputPrefix, i)
                      \/ ValueMatchAt(line, FilepathPrefix, i)}
    IN  IF starts = {} THEN <<>>
        ELSE LET i       == Min(starts)
                 isInput == ValueMatchAt(line, InputPrefix, i)
                 vs      == i + (IF isInput THEN Len(InputPrefix) ELSE Len(FilepathPrefix))
                 q       == ClosingQuote(line, vs)
                 value   == SubSeq(line, vs, q - 1)
             IN  <<IF isInput THEN <<value, <<>>>> ELSE <<<<>>, value>>>>
                 \o FindAllStylesheetFlags(line, q + 1)

\* The last non-empty group g over the matches, "" when there is none.
RECURSIVE LastGroup(_, _)
LastGroup(matches, g) ==
    IF matches = <<>> THEN <<>>
    ELSE LET rest == LastGroup(Tail(matches), g)
         IN  IF rest # <<>> THEN rest ELSE Head(matches)[g]

\* isStylesheetImportLine with the two groups of a match taken for each other
isStylesheetImportLineSwapped(line) ==
    IF ~Contains(line, <<StylesheetUtility>>)
    THEN [ok |-> FALSE, input |-> <<>>, filepath |-> <<>>]
    ELSE LET matches == FindAllStylesheetFlags(line, 1)
         IN  [ok |-> TRUE, input |-> LastGroup(matches, 2), filepath |-> LastGroup(matches, 1)]

\* isStylesheetImportLine: whether the line names the utility, and the values
\* it leaves in *input and *filepath.
isStylesheetImportLine(line) ==
    IF ~Contains(line, <<StylesheetUtility>>)
    THEN [ok |-> FALSE, input |-> <<>>, filepath |-> <<>>]
    ELSE LET matches == FindAllStylesheetFlags(line, 1)
         IN  [ok |-> TRUE, input |-> LastGroup(matches, 1), filepath |-> LastGroup(matches, 2)]

\* ------------------------------------------- syntax.go: separator checking
NoError == <<>>

\* validatePathSeparators rejecting a path only when every separator in it is
\* the wrong one
validatePathSeparatorsUnmixed(filePath, targetOS, ln) ==
    LET hasBackslash    == Contains(filePath, <<Backslash>>)
        hasForwardSlash == Contains(filePath, <<Slash>>)
    IN  IF targetOS = "windows" /\ hasForwardSlash /\ ~hasBackslash
        THEN <<"line ", ToString(ln), ": path '">> \o filePath
             \o <<"' contains ", "forward slashes",
                  " (/) but script targets Windows (use \\)">>
        ELSE IF targetOS = "linux" /\ hasBackslash /\ ~hasForwardSlash
        THEN <<"line ", ToString(ln), ": path '">> \o filePath
             \o <<"' contains ", "backslashes",
                  " (\\) but script targets Linux (use /)">>
        ELSE NoError

\* validatePathSeparators: the error's text, or NoError for nil.
validatePathSeparators(filePath, targetOS, ln) ==
    LET hasBackslash    == Contains(filePath, <<Backslash>>)
        hasForwardSlash == Contains(filePath, <<Slash>>)
    IN  IF targetOS = "windows" /\ hasForwardSlash
        THEN <<"line ", ToString(ln), ": path '">> \o filePath
             \o <<"' contains ", "forward slashes",
                  " (/) but script targets Windows (use \\)">>
        ELSE IF targetOS = "linux" /\ hasBackslash
        THEN <<"line ", ToString(ln), ": path '">> \o filePath
             \o <<"' contains ", "backslashes",
                  " (\\) but script targets Linux (use /)">>
        ELSE NoError

\* ------------------------------------------ syntax.go: executable tracking
shellCommands ==
    { <<c>> : c \in {"echo", "cd", "mkdir", "rm", "cp", "mv", "chmod", "chown",
                     "export", "set", "pwd", "ls", "dir", "del", "copy", "move",
                     "rem", "@echo", "call", "if", "for", "goto", "pushd", "popd",
                     "exit", "return"} }

\* cmd[idx+1:] for idx = strings.LastIndexAny(cmd, "/\\")
AfterLastSeparator(cmd) ==
    LET seps == {k \in 1..Len(cmd) : cmd[k] \in {Slash, Backslash}}
    IN  IF seps = {} THEN cmd ELSE SubSeq(cmd, Max(seps) + 1, Len(cmd))

\* extractExecutableName: the name, or "" (the empty sequence)
extractExecutableName(rawLine) ==
    LET line == TrimSpace(rawLine)
    IN  IF \/ line = <<>>
           \/ HasPrefix(line, <<"#">>)
           \/ HasPrefix(line, <<"REM">>)
           \/ HasPrefix(line, <<"rem">>)
        THEN <<>>
        ELSE LET cmd0 == FirstField(line)
             IN  IF Contains(cmd0, <<"=">>) THEN <<>>
                 ELSE LET cmd1 == AfterLastSeparator(TrimPrefix(cmd0, <<"@">>))
                      IN  IF HasPrefix(cmd1, <<"$">>) \/ HasPrefix(cmd1, <<"%">>) THEN <<>>
                          ELSE LET cmd2 == ToLower(cmd1)
                               IN  IF cmd2 \in shellCommands THEN <<>>
                                   ELSE TrimSuffix(TrimSuffix(TrimSuffix(cmd2, <<".exe">>),
                                                              <<".bat">>), <<".sh">>)

\* trackExecutable making the set of the script anew at every call
trackExecutableFreshSet(execs, scriptFile, line) ==
    LET executable == extractExecutableName(line)
    IN  IF executable = <<>> THEN execs
        ELSE Put(execs, scriptFile, {executable})

\* trackExecutable: the registry after the call
trackExecutable(execs, scriptFile, line) ==
    LET executable == extractExecutableName(line)
    IN  IF executable = <<>> THEN execs
        ELSE Put(execs, scriptFile,
                 (IF scriptFile \in DOMAIN execs THEN execs[scriptFile] ELSE {})
                 \cup {executable})

\* ------------------------------------------- syntax.go: parseLineAsCommand
\* The loop without the assignment skipLine = false of its first Invalid branch
RECURSIVE ScanFlagsKeepSkip(_, _, _, _, _)
ScanFlagsKeepSkip(line, ln, targetOS, flags, k) ==
    IF k > Len(flags)
    THEN [bucket |-> "none", text |-> <<>>, err |-> NoError, skipLine |-> TRUE]
    ELSE IF Len(FindFlag(line, flags[k])) < 1
    THEN ScanFlagsKeepSkip(line, ln, targetOS, flags, k + 1)
    ELSE LET matches == FindValue(line, flags[k])
         IN  IF Len(matches) < 2
             THEN [bucket |-> "Invalid", text |-> line, err |-> NoError, skipLine |-> TRUE]
             ELSE LET filePath == matches[2]
                      err      == validatePathSeparators(filePath, targetOS, ln)
                  IN  IF err # NoError
                      THEN [bucket   |-> "Invalid",
                            text     |-> line \o <<" [">> \o err \o <<"]">>,
                            err      |-> err,
                            skipLine |-> FALSE]
                      ELSE [bucket |-> "Valid", text |-> filePath, err |-> NoError,
                            skipLine |-> FALSE]

\* The loop going on to the next flag name where the code stops at a flag that
\* is not quoted properly
RECURSIVE ScanFlagsFallThrough(_, _, _, _, _)
ScanFlagsFallThrough(line, ln, targetOS, flags, k) ==
    IF k > Len(flags)
    THEN [bucket |-> "none", text |-> <<>>, err |-> NoError, skipLine |-> TRUE]
    ELSE IF Len(FindValue(line, flags[k])) < 2
    THEN ScanFlagsFallThrough(line, ln, targetOS, flags, k + 1)
    ELSE LET filePath == FindValue(line, flags[k])[2]
             err      == validatePathSeparators(filePath, targetOS, ln)
         IN  IF err # NoError
             THEN [bucket   |-> "Invalid",
                   text     |-> line \o <<" [">> \o err \o <<"]">>,
                   err      |-> err,
                   skipLine |-> FALSE]
             ELSE [bucket |-> "Valid", text |-> filePath, err |-> NoError,
                   skipLine |-> FALSE]

\* The loop over pathParameters from the k-th flag name on: the bucket the
\* loop writes to (none when it runs to its end), the text it stores there, the
\* separator error it logs, and skipLine as the loop leaves it.
RECURSIVE ScanFlags(_, _, _, _, _)
ScanFlags(line, ln, targetOS, flags, k) ==
    IF k > Len(flags)
    THEN [bucket |-> "none", text |-> <<>>, err |-> NoError, skipLine |-> TRUE]
    ELSE IF Len(FindFlag(line, flags[k])) < 1
    THEN ScanFlags(line, ln, targetOS, flags, k + 1)
    ELSE LET matches == FindValue(line, flags[k])
         IN  IF Len(matches) < 2
             THEN [bucket |-> "Invalid", text |-> line, err |-> NoError, skipLine |-> FALSE]
             ELSE LET filePath == matches[2]
                      err      == validatePathSeparators(filePath, targetOS, ln)
                  IN  IF err # NoError
                      THEN [bucket   |-> "Invalid",
                            text     |-> line \o <<" [">> \o err \o <<"]">>,
                            err      |-> err,
                            skipLine |-> FALSE]
                      ELSE [bucket |-> "Valid", text |-> filePath, err |-> NoError,
                            skipLine |-> FALSE]

\* parseLineAsCommand storing the trimmed line as the skipped text
parseLineAsCommandTrimmed(lines, line, ln, targetOS, flags) ==
    LET r  == ScanFlags(line, ln, targetOS, flags, 1)
        l1 == CASE r.bucket = "Invalid" -> [lines EXCEPT !.Invalid = Put(@, ln, r.text)]
                [] r.bucket = "Valid"   -> [lines EXCEPT !.Valid = Put(@, ln, r.text)]
                [] OTHER -> lines
    IN  IF r.skipLine THEN [l1 EXCEPT !.Skipped = Put(@, ln, TrimSpace(line))] ELSE l1

\* parseLineAsCommand's effect on analysisResult.File[file]
parseLineAsCommand(lines, line, ln, targetOS, flags) ==
    LET r   == ScanFlags(line, ln, targetOS, flags, 1)
        ssi == isStylesheetImportLine(line)
        l1  == CASE r.bucket = "Invalid" -> [lines EXCEPT !.Invalid = Put(@, ln, r.text)]
                 [] r.bucket = "Valid"   ->
                       [lines EXCEPT
                           !.Valid = Put(@, ln, r.text),
                           !.StyleSheetImport =
                               IF ssi.ok
                               THEN Put(@, ln, [Line         |-> line,
                                                XMLsFilepath |-> ssi.filepath,
                                                InputFile    |-> ssi.input])
                               ELSE @]
                 [] OTHER -> lines
    IN  IF r.skipLine THEN [l1 EXCEPT !.Skipped = Put(@, ln, line)] ELSE l1

\* What parseLineAsCommand logs at error level
parseLineLog(file, line, ln, targetOS, flags) ==
    LET r == ScanFlags(line, ln, targetOS, flags, 1)
    IN  IF r.err # NoError THEN <<LogRec("ERROR", "'{f}' {e}", file, ln, r.err)>> ELSE <<>>

\* GetStyleSheetImportLines
GetStyleSheetImportLines(l) ==
    [n \in DOMAIN l.StyleSheetImport |-> l.StyleSheetImport[n].Line]

\* logValidationResults: the lines it logs
logValidationResults(lineType, filePath, result) ==
    LET lines == CASE lineType = "valid"   -> result[filePath].Valid
                   [] lineType = "invalid" -> result[filePath].Invalid
                   [] lineType = "skipped" -> result[filePath].Skipped
                   [] lineType = "stylesheet import" ->
                          GetStyleSheetImportLines(result[filePath])
        si    == SortedSeq(DOMAIN lines)
    IN  IF DOMAIN lines = {}
        THEN <<LogRec("INFO", "No {lt} entries found", filePath, 0, <<lineType>>)>>
        ELSE [j \in 1..Len(si) |->
                 IF lineType = "invalid"
                 THEN LogRec("ERROR", "'{f}' line '{ln}' is invalid: '{val}'", filePath, si[j],
                             lines[si[j]])
                 ELSE LogRec("INFO", "'{f}' line '{ln}' is valid: '{val}'", filePath, si[j],
                             lines[si[j]])]

\* ------------------------------------------------------- the configuration
R == <<"R">>
InputFlag == <<"input">>
FileNames == {<<"deploy.bat">>, <<"deploy.sh">>}
TargetOSes == {"windows", "linux", "solaris"}

pathParameters == params.PathParameters
Script == params.Scripts[idx]

\* A file as os.Open and bufio.Scanner see it
NoFile == [exists |-> FALSE, lines |-> <<>>]
FileOf(ls) == [exists |-> TRUE, lines |-> ls]

\* Lines{...} as Run creates it for a script
NewLines ==
    [Valid |-> EmptyMap, StyleSheetImport |-> EmptyMap, Invalid |-> EmptyMap,
     Skipped |-> EmptyMap, Missing |-> <<>>]

\* ---------------------------------------------------- main.go, syntax.go
\* Run, lines 46-61: the loop takes the next script, replaces its result entry
\* and calls checkFileSyntax.
RunNextScript ==
    /\ pc = "loop"
    /\ idx <= Len(params.Scripts)
    /\ analysisResult' = Put(analysisResult, Script.Filename, NewLines)
    /\ log' = log \o <<LogRec("SEPARATE", "file '{filePath}'", Script.Filename, 0, <<>>),
                        LogRec("SEPARATE", "SCRIPT SYNTAX CHECK", Script.Filename, 0, <<>>)>>
    /\ pc' = "open"
    /\ UNCHANGED <<env, scriptExecutables, currentScriptTargetOS, convertFrom,
                   convertTo, ignores, idx, lineNumber, call>>

\* checkFileSyntax up to the scanner loop: the target OS is recorded and the
\* file is opened; when it cannot be opened the function logs and returns.
\* targetOS is the target_os the configuration gives for the script, and the
\* patterns are those initializeRegexPatterns compiles for path_parameters.
OpenScript ==
    /\ pc = "open"
    /\ currentScriptTargetOS' = Script.TargetOS
    /\ lineNumber' = 0
    /\ IF scriptFiles[Script.Filename].exists
       THEN /\ pc' = "scan"
            /\ log' = log
       ELSE /\ pc' = "convert"
            /\ log' = Append(log, LogRec("ERROR", "Error opening '{f}'. {e}.",
                                         Script.Filename, 0, <<>>))
    /\ UNCHANGED <<env, analysisResult, scriptExecutables, convertFrom, convertTo,
                   ignores, idx, call>>

\* strings.TrimSpace(line) == ""
IsBlank(line) == TrimSpace(line) = <<>>

\* One turn of the scanner loop: the next line is read and, unless it is
\* blank, handed to parseLineAsCommand (which first tracks its executable).
ScanLine ==
    /\ pc = "scan"
    /\ lineNumber < Len(scriptFiles[Script.Filename].lines)
    /\ lineNumber' = lineNumber + 1
    /\ LET file == Script.Filename
           line == scriptFiles[file].lines[lineNumber + 1]
       IN  IF IsBlank(line)
           THEN UNCHANGED <<analysisResult, scriptExecutables, log>>
           ELSE /\ scriptExecutables' = trackExecutable(scriptExecutables, file, line)
                /\ analysisResult' =
                       [analysisResult EXCEPT ![file] =
                           parseLineAsCommand(@, line, lineNumber + 1,
                                              currentScriptTargetOS, pathParameters)]
                /\ log' = log \o parseLineLog(file, line, lineNumber + 1,
                                             currentScriptTargetOS, pathParameters)
    /\ UNCHANGED <<env, currentScriptTargetOS, convertFrom, convertTo, ignores, pc,
                   idx, call>>

\* checkFileSyntax after the loop: the four reports
ReportSyntax ==
    /\ pc = "scan"
    /\ lineNumber = Len(scriptFiles[Script.Filename].lines)
    /\ LET file    == Script.Filename
           invalid == logValidationResults("invalid", file, analysisResult)
       IN  log' = log
                  \o <<LogRec("INFO", "valid lines", file, 0, <<>>)>>
                  \o logValidationResults("valid", file, analysisResult)
                  \o <<LogRec("INFO", "stylesheet import", file, 0, <<>>)>>
                  \o logValidationResults("stylesheet import", file, analysisResult)
                  \o <<LogRec("SEPARATE", "lines with invalid syntax of referenced filepaths",
                              file, 0, <<>>)>>
                  \o invalid
                  \o (IF DOMAIN analysisResult[file].Invalid = {}
                      THEN <<LogRec("SEPARATE", "none", file, 0, <<>>)>> ELSE <<>>)
                  \o <<LogRec("INFO", "skipped lines", file, 0, <<>>)>>
                  \o logValidationResults("skipped", file, analysisResult)
    /\ pc' = "convert"
    /\ UNCHANGED <<env, analysisResult, scriptExecutables, currentScriptTargetOS,
                   convertFrom, convertTo, ignores, idx, lineNumber, call>>

\* ------------------------------------------------ the repository on disk
\* An entry of the repository is named by the names on the way to it from
\* source_code_root; <<>> is the root itself.
Names == <<"a", "d">>
Nodes ==
    {<<>>} \cup {<<x>> : x \in {"a", "d"}} \cup {<<x, y>> : x, y \in {"a", "d"}}
    \cup {<<"d", "d", "a">>}

\* What the file system answers for an entry:
\*   absent    its parent's listing does not hold it (for the root: Lstat fails)
\*   file      Lstat succeeds, not a directory
\*   dir       Lstat succeeds, a directory that can be listed
\*   lstatErr  listed by its parent, but Lstat fails
\*   readErr   Lstat succeeds, a directory that cannot be listed
Status == {"absent", "file", "dir", "lstatErr", "readErr"}

Parent(node) == SubSeq(node, 1, Len(node) - 1)
IsDirStatus(st) == st \in {"dir", "readErr"}

\* Only a directory that can be listed has entries below it.
WellFormedTree(t) ==
    \A n \in Nodes \ {<<>>} : t[n] # "absent" => t[Parent(n)] = "dir"

\* filepath.Separator
Separator(os) == IF os = "windows" THEN Backslash ELSE Slash

\* strings.Join(names, sep)
RECURSIVE JoinPath(_, _)
JoinPath(names, sep) ==
    IF Len(names) = 0 THEN <<>>
    ELSE IF Len(names) = 1 THEN <<names[1]>>
    ELSE <<names[1], sep>> \o JoinPath(Tail(names), sep)

\* filepath.Rel(root, path) for an entry the walk reached
RelPath(node, os) == IF node = <<>> THEN <<".">> ELSE JoinPath(node, Separator(os))

\* ----------------------------------------------------------- content.go
\* matchPattern.  The gitignore matcher is a library outside the repository.
\* The model reads a pattern as the one relative path it matches, so that a
\* list of patterns stands for any finite set of ignored paths: a directory
\* may be matched while the entries below it are not.
matchPattern(pattern, path) == pattern = path

\* shouldIgnore
shouldIgnore(path, ignorePatterns) ==
    \E k \in 1..Len(ignorePatterns) : matchPattern(ignorePatterns[k], path)

\* What one call of the walk function adds: the files appended, the errors
\* appended, and the value it returns to filepath.Walk.
WalkResult(files, errors, ret) == [files |-> files, errors |-> errors, ret |-> ret]

\* The callback descending into a directory that matches an ignore pattern
walkFnDescend(node, info, err, ignorePatterns, os) ==
    LET relPath == RelPath(node, os)
    IN  IF err
        THEN WalkResult(<<>>, 1, IF info = "dir" THEN "SkipDir" ELSE "nil")
        ELSE IF shouldIgnore(relPath, ignorePatterns)
        THEN WalkResult(<<>>, 0, "nil")
        ELSE IF info # "dir"
        THEN WalkResult(<<relPath>>, 0, "nil")
        ELSE WalkResult(<<>>, 0, "nil")

\* The callback returning SkipDir for whatever matches an ignore pattern
walkFnSkipIgnored(node, info, err, ignorePatterns, os) ==
    LET relPath == RelPath(node, os)
    IN  IF err
        THEN WalkResult(<<>>, 1, IF info = "dir" THEN "SkipDir" ELSE "nil")
        ELSE IF shouldIgnore(relPath, ignorePatterns)
        THEN WalkResult(<<>>, 0, "SkipDir")
        ELSE IF info # "dir"
        THEN WalkResult(<<relPath>>, 0, "nil")
        ELSE WalkResult(<<>>, 0, "nil")

\* The callback of traverseAndCollect.  info is "nil", "dir" or "file"; err
\* says whether Walk passes an error.
walkFn(node, info, err, ignorePatterns, os) ==
    LET relPath == RelPath(node, os)
    IN  IF err
        THEN WalkResult(<<>>, 1, IF info = "dir" THEN "SkipDir" ELSE "nil")
        ELSE IF shouldIgnore(relPath, ignorePatterns)
        THEN WalkResult(<<>>, 0, IF info = "dir" THEN "SkipDir" ELSE "nil")
        ELSE IF info # "dir"
        THEN WalkResult(<<relPath>>, 0, "nil")
        ELSE WalkResult(<<>>, 0, "nil")

\* filepath.walk and its loop over the sorted names of a directory
RECURSIVE walk(_, _, _, _), walkNames(_, _, _, _, _)
walk(node, t, ignorePatterns, os) ==
    IF ~IsDirStatus(t[node])
    THEN walkFn(node, "file", FALSE, ignorePatterns, os)
    ELSE LET r == walkFn(node, "dir", t[node] = "readErr", ignorePatterns, os)
         IN  IF t[node] = "readErr" \/ r.ret # "nil"
             THEN r
             ELSE LET rest == walkNames(node, t, ignorePatterns, os, 1)
                  IN  WalkResult(r.files \o rest.files, r.errors + rest.errors, rest.ret)

walkNames(node, t, ignorePatterns, os, k) ==
    IF k > Len(Names)
    THEN WalkResult(<<>>, 0, "nil")
    ELSE LET child == Append(node, Names[k])
         IN  IF child \notin Nodes \/ t[child] = "absent"
             THEN walkNames(node, t, ignorePatterns, os, k + 1)
             ELSE LET r    == IF t[child] = "lstatErr"
                              THEN walkFn(child, "nil", TRUE, ignorePatterns, os)
                              ELSE walk(child, t, ignorePatterns, os)
                      stop == IF t[child] = "lstatErr"
                              THEN r.ret \notin {"nil", "SkipDir"}
                              ELSE r.ret # "nil"
                                   /\ (~IsDirStatus(t[child]) \/ r.ret # "SkipDir")
                  IN  IF stop
                      THEN r
                      ELSE LET rest == walkNames(node, t, ignorePatterns, os, k + 1)
                           IN  WalkResult(r.files \o rest.files,
                                          r.errors + rest.errors, rest.ret)

\* filepath.Walk(root, fn): what was collected, and the error it returns
\* (SkipDir from the root is turned into nil).
Walk(t, ignorePatterns, os) ==
    LET r == IF t[<<>>] \in {"absent", "lstatErr"}
             THEN walkFn(<<>>, "nil", TRUE, ignorePatterns, os)
             ELSE walk(<<>>, t, ignorePatterns, os)
    IN  WalkResult(r.files, r.errors, IF r.ret = "SkipDir" THEN "nil" ELSE r.ret)

\* traverseAndCollect returning no files when it returns an error
traverseAndCollectAllOrNothing(t, ignorePatterns, os) ==
    LET r      == Walk(t, ignorePatterns, os)
        errors == r.errors + (IF r.ret # "nil" THEN 1 ELSE 0)
    IN  [files |-> IF errors > 0 THEN <<>> ELSE r.files, err |-> errors > 0]

\* traverseAndCollect: the files and whether the error returned is non-nil
traverseAndCollect(t, ignorePatterns, os) ==
    LET r      == Walk(t, ignorePatterns, os)
        errors == r.errors + (IF r.ret # "nil" THEN 1 ELSE 0)
    IN  [files |-> r.files, err |-> errors > 0]

\* The values of a map, as compareFilesWithScripts puts them in valueSet
Values(m) == {m[k] : k \in DOMAIN m}

\* compareFilesWithScripts looking the script's paths up among the files found
compareFilesWithScriptsReversed(script, validLines, t, ignorePatterns, os) ==
    LET found == traverseAndCollect(t, ignorePatterns, os)
        si    == SortedSeq(DOMAIN validLines)
    IN  [log |-> [j \in 1..Len(si) |->
                     IF \A i \in 1..Len(found.files) : found.files[i] # validLines[si[j]]
                     THEN LogRec("ERROR",
                                 "Filepath '{item}' does not exist in the script file '{script}'",
                                 script, 0, validLines[si[j]])
                     ELSE LogRec("INFO", "'{item}' is found in the script file '{script}'",
                                 script, 0, validLines[si[j]])],
         err |-> found.err]

\* The only element of a set of one element
The(S) == CHOOSE x \in S : TRUE

\* compareFilesWithScripts returning an error as well when it has reported an
\* orphaned file
compareFoundFailingOnOrphans(script, validLines, found, ignorePatterns) ==
    LET valueSet == Values(validLines)
        perFile  == [j \in 1..Len(found.files) |->
                        IF found.files[j] \notin valueSet
                        THEN LogRec("ERROR",
                                    "Filepath '{item}' does not exist in the script file '{script}'",
                                    script, 0, found.files[j])
                        ELSE LogRec("INFO", "'{item}' is found in the script file '{script}'",
                                    script, 0, found.files[j])]
        hasErrors == \E j \in 1..Len(found.files) : found.files[j] \notin valueSet
    IN  [log |-> <<LogRec("INFO",
                          "Comparison if all repositry files are referenced in the script started for '{script}'",
                          script, 0, <<>>),
                   LogRec("INFO", "Repository root is '{r}'", script, 0, <<>>),
                   LogRec("INFO", "ignorePatterns are '{ignorePatterns}'", script, 0,
                          ignorePatterns),
                   LogRec("INFO",
                          "'{files}' files found in the repository after skipping the ignore lines",
                          script, Len(found.files), <<>>)>>
                 \o (IF found.err
                     THEN <<LogRec("ERROR", "Errors occurred during directory traversal: {e}",
                                   script, 0, <<>>)>>
                     ELSE <<>>)
                 \o <<LogRec("INFO", "'{valid}' valid lines found in script '{s}'", script,
                             Cardinality(DOMAIN validLines), <<>>)>>
                 \o perFile
                 \o (IF ~hasErrors /\ Len(found.files) > 0
                     THEN <<LogRec("INFO", "All repository files are referenced in the script",
                                   script, 0, <<>>)>>
                     ELSE IF Len(found.files) = 0
                     THEN <<LogRec("INFO", "No files found in repository to check",
                                   script, 0, <<>>)>>
                     ELSE <<>>),
         err |-> found.err \/ hasErrors]

\* compareFilesWithScripts from line 133 on, found being what
\* traverseAndCollect returned
compareFound(script, validLines, found, ignorePatterns) ==
    LET valueSet == Values(validLines)
        perFile  == [j \in 1..Len(found.files) |->
                        IF found.files[j] \notin valueSet
                        THEN LogRec("ERROR",
                                    "Filepath '{item}' does not exist in the script file '{script}'",
                                    script, 0, found.files[j])
                        ELSE LogRec("INFO", "'{item}' is found in the script file '{script}'",
                                    script, 0, found.files[j])]
        hasErrors == \E j \in 1..Len(found.files) : found.files[j] \notin valueSet
    IN  [log |-> <<LogRec("INFO",
                          "Comparison if all repositry files are referenced in the script started for '{script}'",
                          script, 0, <<>>),
                   LogRec("INFO", "Repository root is '{r}'", script, 0, <<>>),
                   LogRec("INFO", "ignorePatterns are '{ignorePatterns}'", script, 0,
                          ignorePatterns),
                   LogRec("INFO",
                          "'{files}' files found in the repository after skipping the ignore lines",
                          script, Len(found.files), <<>>)>>
                 \o (IF found.err
                     THEN <<LogRec("ERROR", "Errors occurred during directory traversal: {e}",
                                   script, 0, <<>>)>>
                     ELSE <<>>)
                 \o <<LogRec("INFO", "'{valid}' valid lines found in script '{s}'", script,
                             Cardinality(DOMAIN validLines), <<>>)>>
                 \o perFile
                 \o (IF ~hasErrors /\ Len(found.files) > 0
                     THEN <<LogRec("INFO", "All repository files are referenced in the script",
                                   script, 0, <<>>)>>
                     ELSE IF Len(found.files) = 0
                     THEN <<LogRec("INFO", "No files found in repository to check",
                                   script, 0, <<>>)>>
                     ELSE <<>>),
         err |-> found.err]

\* compareFilesWithScripts: the lines it logs and the error it returns
compareFilesWithScripts(script, validLines, t, ignorePatterns, os) ==
    The({compareFound(script, validLines, found, ignorePatterns) :
            found \in {traverseAndCollect(t, ignorePatterns, os)}})

\* ------------------------------------------------------------ initial states
\* -flag="value"
Arg(flagName, value) == <<"-">> \o flagName \o <<"=", Quote>> \o value \o <<Quote>>
Cmd == <<"tc_util", " ">>
WinPath == <<"d", Backslash, "a">>
NixPath == <<"d", Slash, "a">>

\* The lines a script is made of when checkFileSyntax is studied
SyntaxLines ==
    { <<>>,
      <<" ", "\t">>,
      <<"\t", "echo", " ", "hi">>,
      Cmd \o Arg(R, WinPath),
      <<" ">> \o Cmd \o Arg(R, NixPath),
      Cmd \o Arg(R, <<"a">>),
      Cmd \o Arg(R, <<"d", Slash, "d", Backslash, "a">>),
      Cmd \o <<"-", "R", "=", "a">>,
      Cmd \o <<"-", "R", "=", Quote, Quote>>,
      Cmd \o <<"-", "R", "=", "a", " ">> \o Arg(InputFlag, NixPath),
      Cmd \o Arg(InputFlag, NixPath) \o <<" ">> \o Arg(R, WinPath),
      Cmd \o <<"-", "R", " ">> \o Arg(R, <<"a">>),
      Cmd \o <<"-", "R", "=", Quote, "a", " ">> \o Arg(InputFlag, <<"a">>),
      Cmd \o <<"-", "R", "x", "=", Quote, "a", Quote>>,
      <<StylesheetUtility, " ">> \o Arg(InputFlag, <<"m">>) \o <<" ">>
          \o Arg(<<"filepath">>, <<"d", Slash>>),
      <<"TC_UTIL", ".EXE", " ">> \o Arg(R, <<"a">>) }

\* All sequences over S of length at most n
SeqsUpTo(S, n) == UNION {[1..k -> S] : k \in 0..n}

NoIgnores == [Global |-> <<>>, StyleSheetsFolder |-> <<>>]
NoCall == [state |-> "idle", patterns |-> <<>>, validLines |-> EmptyMap,
           files |-> <<>>, err |-> FALSE]
EmptyTree == [n \in Nodes |-> IF n = <<>> THEN "dir" ELSE "absent"]
NoManifests == [n \in Nodes |-> <<>>]

\* What Run has set before its first script
InitRun ==
    /\ analysisResult = EmptyMap
    /\ scriptExecutables = EmptyMap
    /\ currentScriptTargetOS = ""
    /\ convertFrom = ""
    /\ convertTo = ""
    /\ ignores = NoIgnores
    /\ pc = "loop"
    /\ idx = 1
    /\ lineNumber = 0
    /\ log = <<>>
    /\ call = NoCall

\* One script of at most MaxLines lines, or one that cannot be opened
InitSyntax ==
    /\ \E flags \in {<<R, InputFlag>>, <<InputFlag, R>>, <<R>>}, os \in TargetOSes :
           params = [PathParameters |-> flags,
                     Scripts        |-> <<[Filename |-> <<"deploy.bat">>, TargetOS |-> os]>>,
                     IgnorePatterns |-> NoIgnores]
    /\ runtimeOS = "linux"
    /\ \E f \in {NoFile} \cup {FileOf(ls) : ls \in SeqsUpTo(SyntaxLines, MaxLines)} :
           scriptFiles = [n \in FileNames |-> IF n = <<"deploy.bat">> THEN f ELSE NoFile]
    /\ manifests = NoManifests
    /\ tree = EmptyTree
    /\ InitRun

NextSyntax == RunNextScript \/ OpenScript \/ ScanLine \/ ReportSyntax

\* checkFileSyntax on one script
SpecSyntax == InitSyntax /\ [][NextSyntax]_vars

\* ============================================================ checkFileSyntax
\* The notions the statements about parseLineAsCommand are written in, taken
\* from the text of a line and not from the parser.

\* -flagname="value" stands in line at i, its closing quote at q
WellQuotedAt(line, flagName, i, q) ==
    LET vs == i + Len(flagName) + 3
    IN  /\ HasPrefixAt(line, <<"-">> \o flagName \o <<"=", Quote>>, i)
        /\ q \in (vs + 1)..Len(line)
        /\ line[q] = Quote
        /\ \A j \in vs..(q - 1) : line[j] # Quote

WellQuoted(line, flagName) ==
    \E i \in 1..Len(line), q \in 1..Len(line) : WellQuotedAt(line, flagName, i, q)

\* The value of the leftmost well quoted occurrence of the flag
QuotedValue(line, flagName) ==
    LET i == Min({j \in 1..Len(line) :
                     \E q \in 1..Len(line) : WellQuotedAt(line, flagName, j, q)})
        q == CHOOSE x \in 1..Len(line) : WellQuotedAt(line, flagName, i, x)
    IN  SubSeq(line, i + Len(flagName) + 3, q - 1)

\* The text -flagname occurs in the line
Occurs(line, flagName) ==
    \E i \in 1..Len(line) : HasPrefixAt(line, <<"-">> \o flagName, i)

\* The first configured flag that occurs in the line, 0 when none does
DecidingFlag(line, flags) ==
    LET ks == {k \in 1..Len(flags) : Occurs(line, flags[k])}
    IN  IF ks = {} THEN 0 ELSE Min(ks)

HasSymbol(s, c) == \E j \in 1..Len(s) : s[j] = c

\* The value uses only the separator of the target OS
TargetSeparatorsOnly(value, os) ==
    /\ os = "windows" => ~HasSymbol(value, Slash)
    /\ os = "linux"   => ~HasSymbol(value, Backslash)

\* checkFileSyntax has returned for the script, having read its file
SyntaxChecked ==
    /\ pc = "convert"
    /\ scriptFiles[Script.Filename].exists

ScriptLines == scriptFiles[Script.Filename].lines
Buckets == analysisResult[Script.Filename]
TargetOS == Script.TargetOS

\* C1: after checkFileSyntax, the number of every non-blank line is a key of
\* exactly one of Valid, Invalid and Skipped, and the number of a blank line is a
\* key of none of them.
C1_OneBucketPerLine ==
    SyntaxChecked =>
        \A n \in 1..Len(ScriptLines) :
            LET in == {b \in {"Valid", "Invalid", "Skipped"} : n \in DOMAIN Buckets[b]}
            IN  IF \A j \in 1..Len(ScriptLines[n]) : ScriptLines[n][j] \in Whitespace
                THEN in = {}
                ELSE Cardinality(in) = 1

\* A script made of a line of white space and a line with a badly quoted flag
\* has been checked.
C1_Witness ==
    /\ SyntaxChecked
    /\ \E n \in 1..Len(ScriptLines) : ScriptLines[n] # <<>> /\ IsBlank(ScriptLines[n])
    /\ \E n \in DOMAIN Buckets.Invalid : Buckets.Invalid[n] = ScriptLines[n]

\* C2: the first configured flag whose text -flagname occurs in the line
\* decides: when it is not well quoted the line is Invalid, whatever flags
\* configured after it the line holds.
C2_FirstFlagDecides ==
    SyntaxChecked =>
        \A n \in 1..Len(ScriptLines) :
            LET line == ScriptLines[n]
                k    == DecidingFlag(line, pathParameters)
            IN  (k > 0 /\ ~WellQuoted(line, pathParameters[k])) =>
                    /\ n \in DOMAIN Buckets.Invalid
                    /\ Buckets.Invalid[n] = line
                    /\ n \notin DOMAIN Buckets.Valid
                    /\ n \notin DOMAIN Buckets.StyleSheetImport

\* A line whose deciding flag is badly quoted while a flag configured after it
\* is well quoted has been classified.
C2_Witness ==
    /\ SyntaxChecked
    /\ \E n \in 1..Len(ScriptLines) :
           LET line == ScriptLines[n]
               k    == DecidingFlag(line, pathParameters)
           IN  /\ k > 0
               /\ ~WellQuoted(line, pathParameters[k])
               /\ \E k2 \in (k + 1)..Len(pathParameters) :
                      WellQuoted(line, pathParameters[k2])
               /\ n \in DOMAIN Buckets.Invalid

\* C3 as stated: a line on which some configured flag is well quoted with a
\* value in target-OS separators is Valid, with that value as its path.
C3_AnyWellQuotedFlagIsValid ==
    SyntaxChecked =>
        \A n \in 1..Len(ScriptLines), k \in 1..Len(pathParameters) :
            LET line == ScriptLines[n]
            IN  (/\ TargetOS \in {"windows", "linux"}
                 /\ WellQuoted(line, pathParameters[k])
                 /\ TargetSeparatorsOnly(QuotedValue(line, pathParameters[k]), TargetOS)) =>
                    /\ n \in DOMAIN Buckets.Valid
                    /\ Buckets.Valid[n] = QuotedValue(line, pathParameters[k])

\* C3: a line whose deciding flag (the first configured flag that occurs in
\* it) is well quoted with a value in target-OS separators is Valid, and the
\* path stored for it is the value of that flag's leftmost well quoted
\* occurrence.
C3_DecidingFlagIsValid ==
    SyntaxChecked =>
        \A n \in 1..Len(ScriptLines) :
            LET line == ScriptLines[n]
                k    == DecidingFlag(line, pathParameters)
            IN  (/\ TargetOS \in {"windows", "linux"}
                 /\ k > 0
                 /\ WellQuoted(line, pathParameters[k])
                 /\ TargetSeparatorsOnly(QuotedValue(line, pathParameters[k]), TargetOS)) =>
                    /\ n \in DOMAIN Buckets.Valid
                    /\ Buckets.Valid[n] = QuotedValue(line, pathParameters[k])

\* A line with a separator in its well quoted deciding value is Valid.
C3_Witness ==
    /\ SyntaxChecked
    /\ TargetOS \in {"windows", "linux"}
    /\ \E n \in DOMAIN Buckets.Valid :
           LET k == DecidingFlag(ScriptLines[n], pathParameters)
           IN  /\ k > 0
               /\ WellQuoted(ScriptLines[n], pathParameters[k])
               /\ Buckets.Valid[n] = QuotedValue(ScriptLines[n], pathParameters[k])
               /\ Len(Buckets.Valid[n]) > 1

\* The extracted path has a separator the target OS does not use
WrongSeparator(value, os) ==
    \/ os = "windows" /\ HasSymbol(value, Slash)
    \/ os = "linux" /\ HasSymbol(value, Backslash)

\* C4: a line whose extracted path has a forward slash under a windows target,
\* or a backslash under a linux target, is Invalid and not Valid; the text kept
\* is the line followed by an error text with the line number and the words
\* 'forward slashes' (windows) or 'backslashes' (linux).
C4_WrongSeparatorIsInvalid ==
    SyntaxChecked =>
        \A n \in 1..Len(ScriptLines) :
            LET line == ScriptLines[n]
                k    == DecidingFlag(line, pathParameters)
            IN  (/\ k > 0
                 /\ WellQuoted(line, pathParameters[k])
                 /\ WrongSeparator(QuotedValue(line, pathParameters[k]), TargetOS)) =>
                    /\ n \notin DOMAIN Buckets.Valid
                    /\ n \in DOMAIN Buckets.Invalid
                    /\ LET text == Buckets.Invalid[n]
                           tail == SubSeq(text, Len(line) + 1, Len(text))
                       IN  /\ HasPrefix(text, line)
                           /\ HasSymbol(tail, ToString(n))
                           /\ HasSymbol(tail, IF TargetOS = "windows"
                                              THEN "forward slashes" ELSE "backslashes")

\* A line with both separators in its extracted path has been rejected.
C4_Witness ==
    /\ SyntaxChecked
    /\ \E n \in DOMAIN Buckets.Invalid :
           LET k == DecidingFlag(ScriptLines[n], pathParameters)
           IN  /\ k > 0
               /\ WellQuoted(ScriptLines[n], pathParameters[k])
               /\ HasSymbol(QuotedValue(ScriptLines[n], pathParameters[k]), Slash)
               /\ HasSymbol(QuotedValue(ScriptLines[n], pathParameters[k]), Backslash)
               /\ WrongSeparator(QuotedValue(ScriptLines[n], pathParameters[k]), TargetOS)

\* C5: a non-blank line in which no configured flag text occurs is Skipped
\* with its text unchanged, and is in none of Valid, Invalid, StyleSheetImport.
C5_NoFlagIsSkipped ==
    SyntaxChecked =>
        \A n \in 1..Len(ScriptLines) :
            LET line == ScriptLines[n]
            IN  (/\ \E j \in 1..Len(line) : line[j] \notin Whitespace
                 /\ DecidingFlag(line, pathParameters) = 0) =>
                    /\ n \in DOMAIN Buckets.Skipped
                    /\ Buckets.Skipped[n] = line
                    /\ n \notin DOMAIN Buckets.Valid
                    /\ n \notin DOMAIN Buckets.Invalid
                    /\ n \notin DOMAIN Buckets.StyleSheetImport

\* A line that starts with white space, and a line that names the stylesheet
\* utility, have been skipped for want of a configured flag.
C5_Witness ==
    /\ SyntaxChecked
    /\ \E n \in DOMAIN Buckets.Skipped :
           /\ ScriptLines[n][1] \in Whitespace
           /\ DecidingFlag(ScriptLines[n], pathParameters) = 0
    /\ \E n \in DOMAIN Buckets.Skipped :
           /\ HasSymbol(ScriptLines[n], StylesheetUtility)
           /\ DecidingFlag(ScriptLines[n], pathParameters) = 0

\* ------------------------------------------------- path.go: file existence
\* strings.Split(s, sep) for a set of one-character separators
RECURSIVE Split(_, _)
Split(s, seps) ==
    LET ks == {k \in 1..Len(s) : s[k] \in seps}
    IN  IF ks = {} THEN <<s>>
        ELSE <<SubSeq(s, 1, Min(ks) - 1)>> \o Split(SubSeq(s, Min(ks) + 1, Len(s)), seps)

\* os.IsPathSeparator
PathSeparators(os) == IF os = "windows" THEN {Slash, Backslash} ELSE {Slash}

IsName(c) == c # <<>> /\ c # <<".">>

\* The names filepath.Clean leaves of a relative path without ".."
Components(path, os) == SelectSeq(Split(path, PathSeparators(os)), IsName)

\* strings.Join over strings of several symbols
RECURSIVE JoinParts(_, _)
JoinParts(parts, sep) ==
    IF Len(parts) = 0 THEN <<>>
    ELSE IF Len(parts) = 1 THEN parts[1]
    ELSE parts[1] \o <<sep>> \o JoinParts(Tail(parts), sep)

\* filepath.Clean
Clean(path, os) ==
    IF Components(path, os) = <<>> THEN <<".">>
    ELSE JoinParts(Components(path, os), Separator(os))

\* filepath.Join(a, b)
Join(a, b, os) ==
    IF a = <<>> /\ b = <<>> THEN <<>>
    ELSE IF a = <<>> THEN Clean(b, os)
    ELSE IF b = <<>> THEN Clean(a, os)
    ELSE Clean(a \o <<Separator(os)>> \o b, os)

\* The entry filepath.Join(sourceCodeRoot, path) names: a sequence of names,
\* which is an entry of the repository or is not.
Resolve(path, os) ==
    LET c == Components(path, os)
    IN  [k \in 1..Len(c) |-> IF Len(c[k]) = 1 THEN c[k][1] ELSE "?"]

\* os.Stat succeeds
StatOK(t, node) == node \in Nodes /\ t[node] \in {"file", "dir", "readErr"}

\* fileExists
fileExists(path, t, from, to, os) == StatOK(t, Resolve(ReplaceAll(path, from, to), os))

\* checkFilePathsInScript: the lines it logs
checkFilePathsInScript(scriptFile, lines, t, from, to, os) ==
    LET si == SortedSeq(DOMAIN lines)
        hasErrors == \E n \in DOMAIN lines : ~fileExists(lines[n], t, from, to, os)
    IN  [j \in 1..Len(si) |->
            IF fileExists(lines[si[j]], t, from, to, os)
            THEN LogRec("INFO", "'{s}' line '{ln}' is valid: file path '{fp}' exists",
                        scriptFile, si[j], lines[si[j]])
            ELSE LogRec("ERROR", "'{s}' line '{ln}' is invalid: '{fp}' not found on file system",
                        scriptFile, si[j], lines[si[j]])]
        \o (IF ~hasErrors /\ DOMAIN lines # {}
            THEN <<LogRec("INFO", "All file paths exist on the file system", scriptFile, 0, <<>>)>>
            ELSE IF DOMAIN lines = {}
            THEN <<LogRec("INFO", "No file paths to check", scriptFile, 0, <<>>)>>
            ELSE <<>>)

\* ------------------------------------------------------ stylesheetImport.go
\* FilePathMap.Paths for "relative" and "absolute"
Paths(fpm, pathType) ==
    [n \in DOMAIN fpm |-> IF pathType = "relative" THEN fpm[n].RelativePath
                          ELSE fpm[n].AbsolutePath]

\* The repository as filepath.Walk sees it from the entry base
Reroot(t, base) ==
    [n \in Nodes |-> IF base \in Nodes /\ (base \o n) \in Nodes THEN t[base \o n]
                     ELSE "absent"]

\* The scanner loop taking the first column of a line for the file name
xmlFilesReferencesFirstColumn(lines, xmlsFilepath, from, to, os) ==
    LET good == {n \in 1..Len(lines) : Len(Split(lines[n], {","})) >= 2}
    IN  [n \in good |->
            LET fileName == TrimSpace(Split(lines[n], {","})[1])
            IN  [RelativePath |-> fileName,
                 AbsolutePath |-> Join(ReplaceAll(xmlsFilepath, from, to), fileName, os)]]

\* The scanner loop over a manifest: the references it records
xmlFilesReferences(lines, xmlsFilepath, from, to, os) ==
    LET good == {n \in 1..Len(lines) : Len(Split(lines[n], {","})) >= 2}
    IN  [n \in good |->
            LET fileName == TrimSpace(Split(lines[n], {","})[2])
            IN  [RelativePath |-> fileName,
                 AbsolutePath |-> Join(ReplaceAll(xmlsFilepath, from, to), fileName, os)]]

\* One turn of the loop of checkStylesheetPaths: the lines it logs for one
\* import definition
processImport(def, t, mf, from, to, ign, os) ==
    LET inputLoc == ReplaceAll(def.InputFile, from, to)
        xmlsPath == ReplaceAll(def.XMLsFilepath, from, to)
        node     == Resolve(inputLoc, os)
    IN  IF ~StatOK(t, node)
        THEN <<LogRec("ERROR", "Error opening '{f}': {err}", inputLoc, 0, <<>>)>>
        ELSE LET lines == IF t[node] = "file" THEN mf[node] ELSE <<>>
                 bad   == SelectSeq(lines, LAMBDA l : Len(Split(l, {","})) < 2)
                 refs  == xmlFilesReferences(lines, def.XMLsFilepath, from, to, os)
                 cmp   == compareFilesWithScripts(inputLoc, Paths(refs, "relative"),
                                                  Reroot(t, Resolve(xmlsPath, os)),
                                                  ign.StyleSheetsFolder, os)
             IN  [j \in 1..Len(bad) |->
                     LogRec("ERROR", "Line '{l}' is of invalid format", inputLoc, 0, bad[j])]
                 \o <<LogRec("INFO", "Read '{n}' lines from '{f}'", inputLoc, Len(lines), <<>>)>>
                 \o (IF t[node] # "file"
                     THEN <<LogRec("ERROR", "Error reading '{f}': {err}", inputLoc, 0, <<>>)>>
                     ELSE checkFilePathsInScript(def.InputFile, Paths(refs, "absolute"),
                                                 t, from, to, os)
                          \o cmp.log
                          \o (IF cmp.err
                              THEN <<LogRec("ERROR",
                                            "Errors occurred during stylesheet comparison for '{input}': {e}",
                                            inputLoc, 0, <<>>)>>
                              ELSE <<>>))

\* checkStylesheetPaths, the import definitions taken in the order given
RECURSIVE checkStylesheetPaths(_, _, _, _, _, _, _, _)
checkStylesheetPaths(order, styleSheetImport, t, mf, from, to, ign, os) ==
    IF order = <<>> THEN <<>>
    ELSE processImport(styleSheetImport[Head(order)], t, mf, from, to, ign, os)
         \o checkStylesheetPaths(Tail(order), styleSheetImport, t, mf, from, to, ign, os)

\* The orders in which a range over a map can visit its keys
Orders(S) == {o \in [1..Cardinality(S) -> S] : \A i, j \in DOMAIN o : o[i] = o[j] => i = j}

\* ------------------------------------------------------- main.go: Run
\* replaceInMap
replaceInMap(inputMap, oldChar, newChar) ==
    [k \in DOMAIN inputMap |-> ReplaceAll(inputMap[k], oldChar, newChar)]

\* replaceInIgnorePatterns
replaceInIgnorePatterns(patterns, oldChar, newChar) ==
    [Global |-> [k \in DOMAIN patterns.Global |->
                    ReplaceAll(patterns.Global[k], oldChar, newChar)],
     StyleSheetsFolder |-> [k \in DOMAIN patterns.StyleSheetsFolder |->
                    ReplaceAll(patterns.StyleSheetsFolder[k], oldChar, newChar)]]

\* Run, lines 63-88: the conversion pair for the script is chosen and the
\* ignore patterns are derived; a target OS that is neither windows nor linux
\* ends the loop.
SelectConversion ==
    /\ pc = "convert"
    /\ LET os   == Script.TargetOS
           head == <<LogRec("SEPARATE", "FILE SYSTEM REFERENCES CHECK", Script.Filename, 0, <<>>)>>
       IN  IF os = "windows" /\ runtimeOS = "linux"
           THEN /\ convertFrom' = Backslash
                /\ convertTo' = Slash
                /\ ignores' = replaceInIgnorePatterns(params.IgnorePatterns, Backslash, Slash)
                /\ log' = log \o head
                /\ pc' = "paths"
           ELSE IF os = "linux" /\ runtimeOS = "windows"
           THEN /\ convertFrom' = Slash
                /\ convertTo' = Backslash
                /\ ignores' = replaceInIgnorePatterns(params.IgnorePatterns, Slash, Backslash)
                /\ log' = log \o head
                /\ pc' = "paths"
           ELSE IF os # "linux" /\ os # "windows"
           THEN /\ log' = log \o head
                       \o <<LogRec("ERROR",
                                   "Incorrect specification of script target_os in the configuration yaml. Must be 'linux' or 'windows'.",
                                   Script.Filename, 0, <<>>)>>
                /\ pc' = "done"
                /\ UNCHANGED <<convertFrom, convertTo, ignores>>
           ELSE /\ ignores' = replaceInIgnorePatterns(params.IgnorePatterns,
                                                      convertFrom, convertTo)
                /\ log' = log \o head
                /\ pc' = "paths"
                /\ UNCHANGED <<convertFrom, convertTo>>
    /\ UNCHANGED <<env, analysisResult, scriptExecutables, currentScriptTargetOS, idx,
                   lineNumber, call>>

\* Run handing the file-existence check the Valid paths of the first script
CheckFilePathsOfFirstScript ==
    /\ pc = "paths"
    /\ log' = log \o checkFilePathsInScript(Script.Filename,
                                            analysisResult[params.Scripts[1].Filename].Valid,
                                            tree, convertFrom, convertTo, runtimeOS)
    /\ pc' = "stylesheets"
    /\ UNCHANGED <<env, analysisResult, scriptExecutables, currentScriptTargetOS,
                   convertFrom, convertTo, ignores, idx, lineNumber, call>>

\* Run, line 90
CheckFilePaths ==
    /\ pc = "paths"
    /\ log' = log \o checkFilePathsInScript(Script.Filename,
                                            analysisResult[Script.Filename].Valid,
                                            tree, convertFrom, convertTo, runtimeOS)
    /\ pc' = "stylesheets"
    /\ UNCHANGED <<env, analysisResult, scriptExecutables, currentScriptTargetOS,
                   convertFrom, convertTo, ignores, idx, lineNumber, call>>

\* Run, line 91: the range over the import definitions visits them in an
\* order the language does not fix.
CheckStylesheetPaths ==
    /\ pc = "stylesheets"
    /\ \E order \in Orders(DOMAIN analysisResult[Script.Filename].StyleSheetImport) :
           log' = log \o checkStylesheetPaths(order,
                                              analysisResult[Script.Filename].StyleSheetImport,
                                              tree, manifests, convertFrom, convertTo,
                                              ignores, runtimeOS)
    /\ pc' = "content"
    /\ UNCHANGED <<env, analysisResult, scriptExecutables, currentScriptTargetOS,
                   convertFrom, convertTo, ignores, idx, lineNumber, call>>

\* Run, lines 93-104: the directory content check, and on to the next script
CompareContent ==
    /\ pc = "content"
    /\ LET validLines == replaceInMap(analysisResult[Script.Filename].Valid,
                                      convertFrom, convertTo)
       IN  log' = log
                  \o <<LogRec("SEPARATE", "DIRECTORY CONTENT CHECK", Script.Filename, 0, <<>>)>>
                  \o compareFilesWithScripts(Script.Filename, validLines, tree,
                                             ignores.Global, runtimeOS).log
    /\ idx' = idx + 1
    /\ pc' = "loop"
    /\ UNCHANGED <<env, analysisResult, scriptExecutables, currentScriptTargetOS,
                   convertFrom, convertTo, ignores, lineNumber, call>>

\* Run returns when the loop has taken every script
RunReturn ==
    /\ pc = "loop"
    /\ idx > Len(params.Scripts)
    /\ pc' = "done"
    /\ UNCHANGED <<env, analysisResult, scriptExecutables, currentScriptTargetOS,
                   convertFrom, convertTo, ignores, idx, lineNumber, log, call>>

\* ------------------------------------------------------- the whole of Run
\* The scripts a configuration can name
ScriptDefs ==
    { [Filename |-> <<"deploy.bat">>, TargetOS |-> "windows"],
      [Filename |-> <<"deploy.sh">>,  TargetOS |-> "linux"],
      [Filename |-> <<"deploy.sh">>,  TargetOS |-> "solaris"] }

\* A call of the stylesheet utility: manifest a, stylesheets in d
ImportLine(sep) ==
    <<StylesheetUtility, " ">> \o Arg(InputFlag, <<"a">>) \o <<" ">>
        \o Arg(<<"filepath">>, <<"d", sep>>)

\* What the two script files can hold
BatContents ==
    { NoFile,
      FileOf(<<Cmd \o Arg(R, <<"a">>)>>),
      FileOf(<<Cmd \o Arg(R, WinPath), ImportLine(Backslash)>>) }
ShContents ==
    { NoFile,
      FileOf(<<<<"echo", " ", "hi">>, Cmd \o Arg(R, NixPath)>>),
      FileOf(<<ImportLine(Slash), ImportLine(Slash)>>) }

\* The repositories Run is studied on
RunTrees ==
    { [n \in Nodes |-> CASE n = <<>>         -> "dir"
                         [] n = <<"a">>      -> "file"
                         [] n = <<"d">>      -> "dir"
                         [] n = <<"d", "a">> -> "file"
                         [] OTHER            -> "absent"],
      [n \in Nodes |-> CASE n = <<>>         -> "dir"
                         [] n = <<"a">>      -> "file"
                         [] n = <<"d">>      -> "dir"
                         [] n = <<"d", "a">> -> "lstatErr"
                         [] n = <<"d", "d">> -> "file"
                         [] OTHER            -> "absent"] }

\* What the manifest a can hold
RunManifests ==
    { [n \in Nodes |-> IF n = <<"a">> THEN <<<<"x", ",", " ", "a">>, <<"x">>>> ELSE <<>>],
      [n \in Nodes |-> IF n = <<"a">> THEN <<<<"x", ",", "d", ",", "y">>>> ELSE <<>>] }

RunIgnores ==
    { NoIgnores,
      [Global |-> <<<<"d", Backslash, "d">>>>, StyleSheetsFolder |-> <<<<"d">>>>] }

Init ==
    /\ \E scripts \in SeqsUpTo(ScriptDefs, MaxScripts), ign \in RunIgnores :
           params = [PathParameters |-> <<R, InputFlag>>,
                     Scripts        |-> scripts,
                     IgnorePatterns |-> ign]
    /\ runtimeOS \in {"linux", "windows"}
    /\ \E b \in BatContents, sh \in ShContents :
           scriptFiles = [n \in FileNames |-> IF n = <<"deploy.bat">> THEN b ELSE sh]
    /\ manifests \in RunManifests
    /\ tree \in RunTrees
    /\ InitRun

Next ==
    \/ RunNextScript
    \/ OpenScript
    \/ ScanLine
    \/ ReportSyntax
    \/ SelectConversion
    \/ CheckFilePaths
    \/ CheckStylesheetPaths
    \/ CompareContent
    \/ RunReturn

Spec == Init /\ [][Next]_vars

\* ===================================================== content.go on its own
\* Every repository of at most MaxEntries entries below its root
WalkTrees ==
    {t \in [Nodes -> Status] :
        /\ WellFormedTree(t)
        /\ Cardinality({n \in Nodes \ {<<>>} : t[n] # "absent"}) <= MaxEntries}

\* The relative paths the entries of a repository can have
RelPaths(os) == {RelPath(n, os) : n \in Nodes}

\* traverseAndCollect(root, ignorePatterns) is called
CallTraverse ==
    /\ call.state = "ready"
    /\ LET r == traverseAndCollect(tree, call.patterns, runtimeOS)
       IN  call' = [call EXCEPT !.state = "traversed", !.files = r.files, !.err = r.err]
    /\ UNCHANGED <<env, analysisResult, scriptExecutables, currentScriptTargetOS,
                   convertFrom, convertTo, ignores, pc, idx, lineNumber, log>>

\* compareFilesWithScripts(script, validLines, root, ignorePatterns) is called
CallCompare ==
    /\ call.state = "ready"
    /\ LET r == compareFilesWithScripts(<<"deploy.sh">>, call.validLines, tree,
                                        call.patterns, runtimeOS)
       IN  /\ log' = log \o r.log
           /\ call' = [call EXCEPT !.state = "compared", !.err = r.err]
    /\ UNCHANGED <<env, analysisResult, scriptExecutables, currentScriptTargetOS,
                   convertFrom, convertTo, ignores, pc, idx, lineNumber>>

\* What the two functions do not read
InitCall ==
    /\ params = [PathParameters |-> <<>>, Scripts |-> <<>>, IgnorePatterns |-> NoIgnores]
    /\ scriptFiles = [n \in FileNames |-> NoFile]
    /\ manifests = NoManifests
    /\ analysisResult = EmptyMap
    /\ scriptExecutables = EmptyMap
    /\ currentScriptTargetOS = ""
    /\ convertFrom = ""
    /\ convertTo = ""
    /\ ignores = NoIgnores
    /\ pc = "call"
    /\ idx = 1
    /\ lineNumber = 0
    /\ log = <<>>

\* A repository and a list of ignore patterns
InitWalk ==
    /\ InitCall
    /\ runtimeOS \in {"linux", "windows"}
    /\ tree \in WalkTrees
    /\ \E ps \in SeqsUpTo(RelPaths(runtimeOS), MaxPatterns) :
           call = [NoCall EXCEPT !.state = "ready", !.patterns = ps]

\* traverseAndCollect on its own
SpecWalk == InitWalk /\ [][CallTraverse]_vars

\* The path values compareFilesWithScripts is handed
ComparePaths == {<<"a">>, <<"d", Slash, "a">>, <<"d", Slash, "d">>}

\* A repository, at most one ignore pattern, and the valid paths of a script
InitCompare ==
    /\ InitCall
    /\ runtimeOS = "linux"
    /\ tree \in WalkTrees
    /\ \E ps \in SeqsUpTo(RelPaths(runtimeOS), 1), vs \in SeqsUpTo(ComparePaths, MaxValid) :
           call = [NoCall EXCEPT !.state = "ready", !.patterns = ps,
                                 !.validLines = [n \in DOMAIN vs |-> vs[n]]]

\* compareFilesWithScripts on its own
SpecCompare == InitCompare /\ [][CallCompare]_vars

\* ------------------------------------------------------------------
\* The notions the statements about the walk are written in, taken from the
\* repository and not from the walk.

\* The entries on the way from the root to an entry, itself excluded
Ancestors(node) == {SubSeq(node, 1, k) : k \in 0..(Len(node) - 1)}

\* The entry's root-relative path matches one of the call's ignore patterns
Matched(node) ==
    \E k \in 1..Len(call.patterns) :
        matchPattern(call.patterns[k], RelPath(node, runtimeOS))

\* The walk gets as far as the entry: every directory above it can be listed
\* and matches no pattern
Reached(node) ==
    \A m \in Ancestors(node) : tree[m] = "dir" /\ ~Matched(m)

\* An access fails at the entry
AccessError(node) ==
    /\ Reached(node)
    /\ \/ tree[node] \in {"lstatErr", "readErr"}
       \/ node = <<>> /\ tree[node] = "absent"

\* The files the contract lets the walk report
Collectable ==
    {RelPath(n, runtimeOS) : n \in {x \in Nodes : /\ tree[x] = "file"
                                                  /\ ~Matched(x)
                                                  /\ Reached(x)}}

Collected == {call.files[j] : j \in 1..Len(call.files)}

\* Where the log holds an orphan error, and the items of these errors
OrphanErrors ==
    {i \in 1..Len(log) :
        /\ log[i].level = "ERROR"
        /\ log[i].msg = "Filepath '{item}' does not exist in the script file '{script}'"}
Orphans == {log[j].val : j \in OrphanErrors}

\* C6: compareFilesWithScripts logs an orphan error for exactly the collected
\* files that are not among the valid path values, each once; it logs none when
\* the two sets are equal.
C6_OrphansAreCollectedMinusValid ==
    call.state = "compared" =>
        /\ Orphans = Collectable \ Values(call.validLines)
        /\ Cardinality(OrphanErrors) = Cardinality(Orphans)
        /\ (Collectable = Values(call.validLines)) => Orphans = {}

\* A comparison has reported one file as orphaned and found another referenced,
\* with a path of the script that is no file of the repository.
C6_Witness ==
    /\ call.state = "compared"
    /\ Orphans # {}
    /\ Collectable \cap Values(call.validLines) # {}
    /\ Values(call.validLines) \ Collectable # {}

\* C8: traverseAndCollect returns no path below a directory whose relative
\* path matches an ignore pattern, whether or not the path itself matches one.
C8_NothingBelowIgnoredDirectory ==
    call.state = "traversed" =>
        \A n \in Nodes :
            (\E m \in Ancestors(n) : IsDirStatus(tree[m]) /\ Matched(m)) =>
                RelPath(n, runtimeOS) \notin Collected

\* A walk has passed a matched directory that holds an unmatched file, and has
\* collected a file elsewhere.
C8_Witness ==
    /\ call.state = "traversed"
    /\ call.files # <<>>
    /\ \E n \in Nodes :
           /\ tree[n] = "file"
           /\ ~Matched(n)
           /\ \E m \in Ancestors(n) : m # <<>> /\ Matched(m) /\ Reached(m)

\* C9: the list traverseAndCollect returns holds, each once, exactly the
\* relative paths of the accessible non-directory entries that match no pattern
\* and lie below no ignored or inaccessible directory.
C9_ExactlyTheCollectable ==
    call.state = "traversed" =>
        /\ Collected = Collectable
        /\ Len(call.files) = Cardinality(Collectable)

\* A walk has met an ignored file and has then collected a file from the
\* directory that comes after it.
C9_Witness ==
    /\ call.state = "traversed"
    /\ tree[<<"a">>] = "file"
    /\ Matched(<<"a">>)
    /\ tree[<<"d">>] = "dir"
    /\ \E f \in Nodes : Parent(f) = <<"d">> /\ RelPath(f, runtimeOS) \in Collected
    /\ Len(call.files) = 1

\* C10: traverseAndCollect returns an error exactly when an access failed during
\* the walk (a root that is not there included), and with the error it returns
\* the files of the part of the tree it could access.
C10_ErrorIffAccessError ==
    call.state = "traversed" =>
        /\ call.err <=> (\E n \in Nodes : AccessError(n))
        /\ call.err => Collected = Collectable

\* A walk has failed to access its first entry and has returned the error
\* together with a file found after it.
C10_Witness ==
    /\ call.state = "traversed"
    /\ call.err
    /\ tree[<<"a">>] \in {"lstatErr", "readErr"}
    /\ call.files # <<>>

\* ===================================================================== Run
\* The two path texts name the same file, whichever separator each uses
SamePath(p, q) ==
    /\ Len(p) = Len(q)
    /\ \A k \in 1..Len(p) :
           \/ p[k] = q[k]
           \/ p[k] \in {Slash, Backslash} /\ q[k] \in {Slash, Backslash}

\* Some Valid line of some script of the run references the file
ReferencedBySomeScript(item) ==
    \E f \in DOMAIN analysisResult :
        \E n \in DOMAIN analysisResult[f].Valid : SamePath(analysisResult[f].Valid[n], item)

\* The orphan errors of the directory content checks of the scripts
ScriptOrphanErrors ==
    {i \in OrphanErrors : \E k \in 1..Len(params.Scripts) :
                              log[i].file = params.Scripts[k].Filename}

\* C7: when Run has returned, no file has been reported as orphaned during
\* the directory content check of a script while a Valid line of some
\* configured script references it.
C7_OrphanOnlyIfNoScriptReferences ==
    pc = "done" =>
        \A i \in ScriptOrphanErrors : ~ReferencedBySomeScript(log[i].val)

\* ============================================ syntax.go: checkScriptParity
\* The symbols executable names are made of, in the order of their bytes
ByteOrder == <<".exe", "echo", "make_user", "plmxml_import", "tc_util">>
Rank(c) == IF \E k \in DOMAIN ByteOrder : ByteOrder[k] = c
           THEN CHOOSE k \in DOMAIN ByteOrder : ByteOrder[k] = c
           ELSE Len(ByteOrder) + 1

\* a < b for two Go strings
StringLess(a, b) ==
    \E k \in 1..(Len(b)) :
        /\ \A j \in 1..(k - 1) : j <= Len(a) /\ a[j] = b[j]
        /\ \/ k = Len(a) + 1
           \/ k <= Len(a) /\ Rank(a[k]) < Rank(b[k])

\* sort.Strings over the names collected from a map
RECURSIVE sortStrings(_)
sortStrings(S) ==
    IF S = {} THEN <<>>
    ELSE LET first == CHOOSE x \in S : \A y \in S \ {x} : StringLess(x, y)
         IN  <<first>> \o sortStrings(S \ {first})

\* The executables of the scripts that target os (lines 361-375)
collectExecs(scripts, execs, os) ==
    UNION {execs[scripts[k].Filename] :
              k \in {j \in DOMAIN scripts : /\ scripts[j].TargetOS = os
                                            /\ scripts[j].Filename \in DOMAIN execs}}

\* Lines 377-408: the two differences and what is reported of them
reportFindings(windowsExecs, linuxExecs) ==
    LET missingInLinux   == windowsExecs \ linuxExecs
        missingInWindows == linuxExecs \ windowsExecs
    IN  (IF missingInLinux # {}
         THEN <<LogRec("ERROR",
                       "Executables in Windows script(s) but missing in Linux script(s): {execs}",
                       <<>>, 0, JoinParts(sortStrings(missingInLinux), ", "))>>
         ELSE <<>>)
        \o (IF missingInWindows # {}
            THEN <<LogRec("ERROR",
                          "Executables in Linux script(s) but missing in Windows script(s): {execs}",
                          <<>>, 0, JoinParts(sortStrings(missingInWindows), ", "))>>
            ELSE <<>>)
        \o (IF missingInLinux = {} /\ missingInWindows = {}
            THEN <<LogRec("SEPARATE", "none", <<>>, 0, <<>>)>>
            ELSE <<>>)

\* Lines 342-345
parityHeading ==
    <<LogRec("HEADING", " ", <<>>, 0, <<>>),
      LogRec("SEPARATE", "SCRIPT PARITY CHECK", <<>>, 0, <<>>),
      LogRec("SEPARATE", "=====================================", <<>>, 0, <<>>),
      LogRec("SEPARATE",
             "Checking that Windows and Linux scripts call the same executables...",
             <<>>, 0, <<>>)>>

\* checkScriptParity with the two sets of executables handed over the wrong
\* way round
checkScriptParitySwapped(scripts, execs) ==
    IF Len(scripts) < 2 THEN <<>>
    ELSE parityHeading
         \o (IF /\ \E k \in DOMAIN scripts : scripts[k].TargetOS = "windows"
                /\ \E k \in DOMAIN scripts : scripts[k].TargetOS = "linux"
             THEN reportFindings(collectExecs(scripts, execs, "linux"),
                                 collectExecs(scripts, execs, "windows"))
             ELSE <<>>)

\* checkScriptParity without the return of lines 338-340
checkScriptParityNoEarlyReturn(scripts, execs) ==
    parityHeading
    \o (IF /\ \E k \in DOMAIN scripts : scripts[k].TargetOS = "windows"
           /\ \E k \in DOMAIN scripts : scripts[k].TargetOS = "linux"
        THEN reportFindings(collectExecs(scripts, execs, "windows"),
                            collectExecs(scripts, execs, "linux"))
        ELSE <<>>)

\* checkScriptParity(scripts): what it logs, given the registry of executables
checkScriptParity(scripts, execs) ==
    IF Len(scripts) < 2 THEN <<>>
    ELSE parityHeading
         \o (IF /\ \E k \in DOMAIN scripts : scripts[k].TargetOS = "windows"
                /\ \E k \in DOMAIN scripts : scripts[k].TargetOS = "linux"
             THEN reportFindings(collectExecs(scripts, execs, "windows"),
                                 collectExecs(scripts, execs, "linux"))
             ELSE <<>>)

\* checkScriptParity(scripts) is called
CallParity ==
    /\ call.state = "ready"
    /\ log' = log \o checkScriptParity(params.Scripts, scriptExecutables)
    /\ call' = [call EXCEPT !.state = "checked"]
    /\ UNCHANGED <<env, analysisResult, scriptExecutables, currentScriptTargetOS,
                   convertFrom, convertTo, ignores, pc, idx, lineNumber>>

\* The scripts and the executables the parity check is studied on
ParityFiles == {<<"deploy.bat">>, <<"update.bat">>, <<"deploy.sh">>}
ParityDefs ==
    { [Filename |-> <<"deploy.bat">>, TargetOS |-> "windows"],
      [Filename |-> <<"update.bat">>, TargetOS |-> "windows"],
      [Filename |-> <<"deploy.sh">>,  TargetOS |-> "linux"],
      [Filename |-> <<"deploy.sh">>,  TargetOS |-> "solaris"] }
ExecNames == {<<"make_user">>, <<"plmxml_import">>, <<"tc_util">>}

\* The registries trackExecutable can have built: a script that was tracked
\* has at least one name
Registries == UNION {[D -> (SUBSET ExecNames) \ {{}}] : D \in SUBSET ParityFiles}

\* Run has given every configured script its result entry, and the scripts
\* have been scanned
InitParity ==
    /\ \E scripts \in SeqsUpTo(ParityDefs, MaxParityScripts) :
        /\ params = [PathParameters |-> <<R>>, Scripts |-> scripts,
                     IgnorePatterns |-> NoIgnores]
        /\ analysisResult = [f \in {scripts[k].Filename : k \in DOMAIN scripts} |-> NewLines]
    /\ scriptExecutables \in Registries
    /\ runtimeOS = "linux"
    /\ scriptFiles = [n \in FileNames |-> NoFile]
    /\ manifests = NoManifests
    /\ tree = EmptyTree
    /\ currentScriptTargetOS = ""
    /\ convertFrom = ""
    /\ convertTo = ""
    /\ ignores = NoIgnores
    /\ pc = "call"
    /\ idx = 1
    /\ lineNumber = 0
    /\ log = <<>>
    /\ call = [NoCall EXCEPT !.state = "ready"]

\* checkScriptParity on its own
SpecParity == InitParity /\ [][CallParity]_vars

\* ------------------------------------------------------------------
\* The notions the statements about the parity check are written in

\* The scripts of the configuration that target os
ScriptsFor(os) == {params.Scripts[k].Filename :
                      k \in {j \in DOMAIN params.Scripts : params.Scripts[j].TargetOS = os}}
\* Every name some script that targets os invokes
InvokedOn(os) == {n \in ExecNames :
                    \E f \in ScriptsFor(os) \cap DOMAIN scriptExecutables :
                        n \in scriptExecutables[f]}
BothFamilies == ScriptsFor("windows") # {} /\ ScriptsFor("linux") # {}
ParityChecked == call.state = "checked"
\* The positions of the log that hold the report with this template
Reports(msg) == {k \in DOMAIN log : log[k].msg = msg}
MissingInLinuxMsg ==
    "Executables in Windows script(s) but missing in Linux script(s): {execs}"
MissingInWindowsMsg ==
    "Executables in Linux script(s) but missing in Windows script(s): {execs}"
\* The names a report lists, in the order it lists them
Listed(k) == Split(log[k].val, {", "})
\* The report with this template lists exactly the names of S, in ascending
\* order, and there is no such report when S is empty
ReportsExactly(msg, S) ==
    /\ Cardinality(Reports(msg)) = (IF S = {} THEN 0 ELSE 1)
    /\ \A k \in Reports(msg) :
           /\ log[k].level = "ERROR"
           /\ {Listed(k)[j] : j \in DOMAIN Listed(k)} = S
           /\ Len(Listed(k)) = Cardinality(S)
           /\ \A i, j \in DOMAIN Listed(k) : i < j => StringLess(Listed(k)[i], Listed(k)[j])

OneFamilyOnly ==
    \/ Len(params.Scripts) < 2
    \/ \A i, j \in DOMAIN params.Scripts :
           params.Scripts[i].TargetOS = params.Scripts[j].TargetOS
\* The call leaves everything but the log as it was
ParityKeepsState ==
    UNCHANGED <<env, analysisResult, scriptExecutables, currentScriptTargetOS,
                convertFrom, convertTo, ignores>>
\* What the step has appended to the log
Appended == SubSeq(log', Len(log) + 1, Len(log'))

\* C13 as stated: checkScriptParity logs nothing and changes no state when
\* fewer than two scripts are configured, and when two or more scripts are
\* configured that all target the same OS.
C13_NoOpWithoutBothFamilies ==
    [][(call.state = "ready" /\ OneFamilyOnly) => (log' = log /\ ParityKeepsState)]_vars

\* C13 as amended: in both cases checkScriptParity changes no state and
\* reports no finding; with fewer than two scripts it logs nothing, and with
\* two or more scripts of one OS it logs its heading lines and nothing else.
C13_NoFindingWithoutBothFamilies ==
    [][(call.state = "ready" /\ OneFamilyOnly) =>
          /\ ParityKeepsState
          /\ IF Len(params.Scripts) < 2
             THEN log' = log
             ELSE /\ SubSeq(log', 1, Len(log)) = log
                  /\ \E k \in DOMAIN Appended : Appended[k].msg = "SCRIPT PARITY CHECK"
                  /\ \A k \in DOMAIN Appended :
                         /\ Appended[k].level \in {"HEADING", "SEPARATE"}
                         /\ Appended[k].msg # "none"
                         /\ Appended[k].val = <<>>]_vars

\* Two windows scripts that invoke different executables have been checked:
\* the heading is in the log and nothing is reported
C13_Witness ==
    /\ ParityChecked
    /\ Len(params.Scripts) >= 2
    /\ OneFamilyOnly
    /\ Cardinality(ScriptsFor("windows")) = 2
    /\ \A f \in ScriptsFor("windows") : f \in DOMAIN scriptExecutables
    /\ \E f, g \in ScriptsFor("windows") : scriptExecutables[f] # scriptExecutables[g]
    /\ Reports("SCRIPT PARITY CHECK") # {}
    /\ \A k \in DOMAIN log : log[k].level # "ERROR"

\* The names the scripts of the other of the two OSes invoke and the scripts
\* of os do not
OtherOS(os) == IF os = "windows" THEN "linux" ELSE "windows"
MissingOn(os) == InvokedOn(OtherOS(os)) \ InvokedOn(os)

\* C14: after the parity check the Missing list of each script's result
\* entry holds exactly the executable names the scripts of the other OS
\* invoke and the scripts of this script's OS do not.
C14_MissingListsTheDifference ==
    (ParityChecked /\ BothFamilies) =>
        \A k \in DOMAIN params.Scripts :
            LET s == params.Scripts[k]
                missing == analysisResult[s.Filename].Missing
            IN  s.TargetOS \in {"windows", "linux"} =>
                    {missing[j] : j \in DOMAIN missing} = MissingOn(s.TargetOS)

\* C12: when Run has returned for a configuration with a windows and a linux
\* script, the parity check has been made exactly once, after the directory
\* content check of the last configured script.
C12_ParityOnceAfterLastScript ==
    (pc = "done" /\ BothFamilies) =>
        /\ Cardinality(Reports("SCRIPT PARITY CHECK")) = 1
        /\ \A p \in Reports("SCRIPT PARITY CHECK") :
               \E k \in 1..(p - 1) :
                   /\ log[k].msg = "DIRECTORY CONTENT CHECK"
                   /\ log[k].file = params.Scripts[Len(params.Scripts)].Filename

\* ============================================== syntax.go: trackExecutable
\* The lines trackExecutable is studied on
TrackLines ==
    { <<"tc_util", " ", "-a">>,
      <<"$TC_BIN", Slash, "tc_util", " ", "-b">>,
      <<"TC_UTIL", ".EXE", " ", "-c">>,
      <<" ", "plmxml_import", " ", "-a">>,
      <<"@", "make_user", ".bat">>,
      <<"echo", " ", "hi">>,
      <<"echo", ".exe", " ", "hi">>,
      <<".exe", " ", "-a">>,
      <<"#", " ", "note">>,
      <<"X", "=", "1">> }

\* trackExecutable(scriptFile, line) is called
CallTrack ==
    /\ call.state = "tracking"
    /\ Len(call.calls) < MaxTracked
    /\ \E scriptFile \in FileNames, line \in TrackLines :
        /\ scriptExecutables' = trackExecutable(scriptExecutables, scriptFile, line)
        /\ call' = [call EXCEPT !.calls = Append(@, [scriptFile |-> scriptFile,
                                                     line |-> line])]
    /\ UNCHANGED <<env, analysisResult, currentScriptTargetOS, convertFrom, convertTo,
                   ignores, pc, idx, lineNumber, log>>

\* No executable has been tracked yet
InitTrack ==
    /\ InitCall
    /\ runtimeOS = "linux"
    /\ tree = EmptyTree
    /\ call = [state |-> "tracking", calls |-> <<>>]

\* trackExecutable on its own
SpecTrack == InitTrack /\ [][CallTrack]_vars

\* ------------------------------------------------------------------
\* The notions the statements about the registry are written in

\* The utilities the lines invoke, and the spellings of their names
Utilities == {"tc_util", "plmxml_import", "make_user"}
Spellings(u) == IF u = "tc_util" THEN {"tc_util", "TC_UTIL"} ELSE {u}
UpperCase == {"TC_UTIL", "ECHO", ".EXE"}
Invokes(line, u) == \E c \in Spellings(u) : HasSymbol(line, c)
\* The set of a script, empty when it has none
Tracked(f) == IF f \in DOMAIN scriptExecutables THEN scriptExecutables[f] ELSE {}
\* The calls made for a script
CallsFor(f) == {k \in DOMAIN call.calls : call.calls[k].scriptFile = f}
Denylist == {"echo", "cd", "mkdir", "rm", "cp", "mv", "chmod", "chown", "export",
             "set", "pwd", "ls", "dir", "del", "copy", "move", "rem", "@echo",
             "call", "if", "for", "goto", "pushd", "popd", "exit", "return"}

\* C15: every name stored in a script's executable set is non-empty, in
\* lowercase and not on the denylist of shell commands; lines that invoke
\* the same utility in different letter case give one entry.
C15_StoredNamesAreCleanLowercase ==
    \A f \in FileNames :
        /\ \A n \in Tracked(f) :
               /\ n # <<>>
               /\ \A k \in DOMAIN n : n[k] \notin UpperCase
               /\ \A d \in Denylist : n # <<d>>
        /\ \A u \in Utilities :
               Cardinality({n \in Tracked(f) : \E c \in Spellings(u) : HasSymbol(n, c)}) <= 1

\* C16: a script's set holds a utility exactly when some line tracked for
\* that script invokes it, under one entry whatever the arguments, the path
\* prefix or the number of calls; a script nothing was tracked for has no set.
C16_OneEntryPerScriptAndUtility ==
    \A f \in FileNames :
        /\ \A u \in Utilities :
               /\ (<<u>> \in Tracked(f)) <=>
                      (\E k \in CallsFor(f) : Invokes(call.calls[k].line, u))
               /\ \A n \in Tracked(f) :
                      (\E c \in Spellings(u) : HasSymbol(n, c)) => n = <<u>>
        /\ (CallsFor(f) = {}) => f \notin DOMAIN scriptExecutables

\* Two different lines that invoke tc_util were tracked for one script,
\* which has the single entry tc_util, and another script has plmxml_import
C16_Witness ==
    \E f, g \in FileNames :
        /\ f # g
        /\ \E i, j \in CallsFor(f) :
               /\ call.calls[i].line # call.calls[j].line
               /\ Invokes(call.calls[i].line, "tc_util")
               /\ Invokes(call.calls[j].line, "tc_util")
        /\ Tracked(f) = {<<"tc_util">>}
        /\ Tracked(g) = {<<"plmxml_import">>}

\* ================================================= determinePathConversion
\* determinePathConversion with the check of the target OS made last, as a
\* final else
determinePathConversionValidatedLast(targetOS, scriptFilename, goos) ==
    IF targetOS = "windows" /\ goos = "linux"
    THEN [convertFrom |-> Backslash, convertTo |-> Slash, err |-> NoError]
    ELSE IF targetOS = "linux" /\ goos = "windows"
    THEN [convertFrom |-> Slash, convertTo |-> Backslash, err |-> NoError]
    ELSE IF targetOS = goos
    THEN [convertFrom |-> "", convertTo |-> "", err |-> NoError]
    ELSE [convertFrom |-> "", convertTo |-> "",
          err |-> <<"incorrect specification of script target_os for ", Quote>>
                  \o scriptFilename
                  \o <<Quote, ": must be 'linux' or 'windows', got ", Quote, targetOS, Quote>>]

\* determinePathConversion(targetOS, scriptFilename), goos being runtime.GOOS
determinePathConversion(targetOS, scriptFilename, goos) ==
    IF targetOS # "linux" /\ targetOS # "windows"
    THEN [convertFrom |-> "", convertTo |-> "",
          err |-> <<"incorrect specification of script target_os for ", Quote>>
                  \o scriptFilename
                  \o <<Quote, ": must be 'linux' or 'windows', got ", Quote, targetOS, Quote>>]
    ELSE IF targetOS = "windows" /\ goos = "linux"
    THEN [convertFrom |-> Backslash, convertTo |-> Slash, err |-> NoError]
    ELSE IF targetOS = "linux" /\ goos = "windows"
    THEN [convertFrom |-> Slash, convertTo |-> Backslash, err |-> NoError]
    ELSE [convertFrom |-> "", convertTo |-> "", err |-> NoError]

\* determinePathConversion(script.TargetOS, script.Filename) is called
CallConversion ==
    /\ call.state = "ready"
    /\ LET r == determinePathConversion(Script.TargetOS, Script.Filename, runtimeOS)
       IN  call' = [state |-> "converted", convertFrom |-> r.convertFrom,
                    convertTo |-> r.convertTo, err |-> r.err]
    /\ UNCHANGED <<env, analysisResult, scriptExecutables, currentScriptTargetOS,
                   convertFrom, convertTo, ignores, pc, idx, lineNumber, log>>

\* The values target_os can have in a configuration, and the systems the
\* program can run on
ConfiguredOSes == {"windows", "linux", "solaris", "darwin", "Windows", ""}
RuntimeOSes == {"linux", "windows", "darwin"}

\* One script and the system the program runs on
InitConversion ==
    /\ \E f \in ParityFiles, os \in ConfiguredOSes :
           params = [PathParameters |-> <<>>,
                     Scripts        |-> <<[Filename |-> f, TargetOS |-> os]>>,
                     IgnorePatterns |-> NoIgnores]
    /\ runtimeOS \in RuntimeOSes
    /\ scriptFiles = [n \in FileNames |-> NoFile]
    /\ manifests = NoManifests
    /\ tree = EmptyTree
    /\ analysisResult = EmptyMap
    /\ scriptExecutables = EmptyMap
    /\ currentScriptTargetOS = ""
    /\ convertFrom = ""
    /\ convertTo = ""
    /\ ignores = NoIgnores
    /\ pc = "call"
    /\ idx = 1
    /\ lineNumber = 0
    /\ log = <<>>
    /\ call = [state |-> "ready"]

\* determinePathConversion on its own
SpecConversion == InitConversion /\ [][CallConversion]_vars

\* C17: determinePathConversion returns (backslash, slash) for target
\* windows on a linux runtime, (slash, backslash) for target linux on a
\* windows runtime, the empty pair and no error for a target OS that is the
\* running OS, and an error with the empty pair for every target OS other
\* than windows and linux.
C17_ConversionByTargetAndRuntime ==
    call.state = "converted" =>
        LET targetOS == params.Scripts[1].TargetOS
            pair     == <<call.convertFrom, call.convertTo>>
        IN  /\ (targetOS = "windows" /\ runtimeOS = "linux") =>
                   (pair = <<"\\", "/">> /\ call.err = <<>>)
            /\ (targetOS = "linux" /\ runtimeOS = "windows") =>
                   (pair = <<"/", "\\">> /\ call.err = <<>>)
            /\ (targetOS \in {"windows", "linux"} /\ targetOS = runtimeOS) =>
                   (pair = <<"", "">> /\ call.err = <<>>)
            /\ (targetOS \notin {"windows", "linux"}) =>
                   (pair = <<"", "">> /\ call.err # <<>>
                    /\ HasSymbol(call.err, targetOS))

\* A target OS that is neither windows nor linux, and is the running OS, has
\* been refused
C17_Witness ==
    /\ call.state = "converted"
    /\ params.Scripts[1].TargetOS = "darwin"
    /\ runtimeOS = "darwin"
    /\ call.err # <<>>
    /\ call.convertFrom = ""

\* ------------------------------------------------------------------
\* The notions the statements about the scripts Run gives up on are written in

ValidTarget(k) == params.Scripts[k].TargetOS \in {"windows", "linux"}
Openable(k) == scriptFiles[params.Scripts[k].Filename].exists
\* Run has taken up the k-th configured script
Started(k) == Cardinality(Reports("SCRIPT SYNTAX CHECK")) >= k
TargetErrors ==
    {i \in DOMAIN log :
        /\ log[i].level = "ERROR"
        /\ log[i].msg = "Incorrect specification of script target_os in the configuration yaml. Must be 'linux' or 'windows'."}
MissingFileErrors ==
    {i \in DOMAIN log :
        /\ log[i].level = "ERROR"
        /\ log[i].msg = "'{s}' line '{ln}' is invalid: '{fp}' not found on file system"}

\* C18: when Run has returned, every script with a target OS other than
\* windows and linux has its error in the log, no directory content check
\* was made for such a script, and every configured script was taken up and,
\* with a valid target OS and a readable file, checked to the end.
C18_InvalidTargetSkipsOnlyThatScript ==
    (pc = "done" /\ \E k \in DOMAIN params.Scripts : ~ValidTarget(k)) =>
        /\ Cardinality(TargetErrors)
               = Cardinality({k \in DOMAIN params.Scripts : ~ValidTarget(k)})
        /\ Cardinality(Reports("DIRECTORY CONTENT CHECK"))
               <= Cardinality({k \in DOMAIN params.Scripts : ValidTarget(k)})
        /\ \A k \in DOMAIN params.Scripts : Started(k)
        /\ Cardinality(Reports("DIRECTORY CONTENT CHECK"))
               >= Cardinality({k \in DOMAIN params.Scripts : ValidTarget(k) /\ Openable(k)})

\* C19: when Run has returned, every script it took up whose file could not
\* be opened has the failure in the log and no missing-file or orphan error,
\* and the script configured after it was taken up.
C19_UnopenableScriptIsSkipped ==
    pc = "done" =>
        \A k \in DOMAIN params.Scripts :
            (Started(k) /\ ~Openable(k)) =>
                LET f == params.Scripts[k].Filename
                IN  /\ \E i \in DOMAIN log : /\ log[i].level = "ERROR"
                                             /\ log[i].msg = "Error opening '{f}'. {e}."
                                             /\ log[i].file = f
                    /\ \A i \in MissingFileErrors \cup OrphanErrors : log[i].file # f
                    /\ (ValidTarget(k) /\ k < Len(params.Scripts)) => Started(k + 1)

\* ===================================== syntax.go: stylesheet import lines
FilepathFlag == <<"filepath">>
Utility == <<StylesheetUtility, " ">>

\* The lines the recording of stylesheet imports is studied on
ImportLines ==
    { Utility \o Arg(InputFlag, <<"m">>) \o <<" ">> \o Arg(FilepathFlag, <<"d", Slash>>),
      Utility \o Arg(FilepathFlag, <<"d", Slash>>) \o <<" ">> \o Arg(InputFlag, <<"m">>),
      Utility \o Arg(R, <<"a">>),
      Utility \o Arg(InputFlag, <<"m">>),
      Utility \o <<"-", "input", "=", "m">>,
      Utility \o <<"hi">>,
      Cmd \o Arg(InputFlag, <<"m">>) \o <<" ">> \o Arg(FilepathFlag, <<"d", Slash>>),
      Utility \o Arg(InputFlag, <<"m">>) \o <<" ">> \o Arg(InputFlag, <<"a">>)
          \o <<" ">> \o Arg(FilepathFlag, <<"d", Backslash>>),
      Utility \o Arg(R, WinPath) \o <<" ">> \o Arg(InputFlag, <<"m">>) }

\* One script of at most MaxLines such lines
InitImport ==
    /\ \E flags \in {<<R, InputFlag>>, <<InputFlag, R>>, <<R>>}, os \in TargetOSes :
           params = [PathParameters |-> flags,
                     Scripts        |-> <<[Filename |-> <<"deploy.sh">>, TargetOS |-> os]>>,
                     IgnorePatterns |-> NoIgnores]
    /\ runtimeOS = "linux"
    /\ \E ls \in SeqsUpTo(ImportLines, MaxLines) :
           scriptFiles = [n \in FileNames |-> IF n = <<"deploy.sh">> THEN FileOf(ls)
                                              ELSE NoFile]
    /\ manifests = NoManifests
    /\ tree = EmptyTree
    /\ InitRun

\* checkFileSyntax on a script that calls the stylesheet utility
SpecImport == InitImport /\ [][NextSyntax]_vars

\* Every value a well quoted occurrence of the flag has in the line
QuotedValues(line, flagName) ==
    {SubSeq(line, i + Len(flagName) + 3, q - 1) :
        <<i, q>> \in {p \in (1..Len(line)) \X (1..Len(line)) :
                         WellQuotedAt(line, flagName, p[1], p[2])}}
\* v is a value of the flag in the line, or empty when the line has none
ValueOrEmpty(v, line, flagName) ==
    IF QuotedValues(line, flagName) = {} THEN v = <<>>
    ELSE v \in QuotedValues(line, flagName)

\* C20: in every state the line numbers of a script's StyleSheetImport map
\* are those of its Valid lines that hold the name of the stylesheet
\* utility, and the entry of such a line holds the line, a value of its
\* -input="..." as InputFile and a value of its -filepath="..." as
\* XMLsFilepath, whatever their order, each empty when the line has no such
\* flag.
C20_ImportEntriesAreValidUtilityLines ==
    Script.Filename \in DOMAIN analysisResult =>
        \A n \in 1..Len(ScriptLines) :
            LET line == ScriptLines[n]
            IN  /\ (n \in DOMAIN Buckets.StyleSheetImport) <=>
                       (n \in DOMAIN Buckets.Valid /\ HasSymbol(line, StylesheetUtility))
                /\ n \in DOMAIN Buckets.StyleSheetImport =>
                       LET e == Buckets.StyleSheetImport[n]
                       IN  /\ e.Line = line
                           /\ ValueOrEmpty(e.InputFile, line, InputFlag)
                           /\ ValueOrEmpty(e.XMLsFilepath, line, FilepathFlag)

\* A line with -filepath before -input has its entry with both values, a line
\* of the utility with neither flag has an empty entry or none, and a Valid
\* line without the utility has no entry
C20_Witness ==
    /\ SyntaxChecked
    /\ \E n \in DOMAIN Buckets.StyleSheetImport :
           /\ \E i, j \in 1..Len(ScriptLines[n]) :
                  /\ i < j
                  /\ HasPrefixAt(ScriptLines[n], <<"-", "filepath">>, i)
                  /\ HasPrefixAt(ScriptLines[n], <<"-", "input">>, j)
           /\ Buckets.StyleSheetImport[n].InputFile = <<"m">>
           /\ Buckets.StyleSheetImport[n].XMLsFilepath = <<"d", Slash>>
    /\ \E n \in DOMAIN Buckets.Valid : n \notin DOMAIN Buckets.StyleSheetImport

\* ------------------------------------------------------------------
\* C23: compareFilesWithScripts returns an error exactly when an access
\* failed during the traversal; orphaned files, a script without path values
\* and a repository without files give no error.
C23_ErrorOnlyFromTraversal ==
    call.state = "compared" => (call.err <=> (\E n \in Nodes : AccessError(n)))

\* A script without path values has been compared with a repository that
\* can be read: every file is reported as orphaned and no error is returned
C23_Witness ==
    /\ call.state = "compared"
    /\ ~call.err
    /\ DOMAIN call.validLines = {}
    /\ Cardinality(OrphanErrors) >= 2

\* ------------------------------------------------------------------
\* The notions the statements about the passes of Run are written in

\* The conversion a script that targets os needs on the running OS ros
ExpectedPair(os, ros) ==
    IF os = "windows" /\ ros = "linux" THEN <<"\\", "/">>
    ELSE IF os = "linux" /\ ros = "windows" THEN <<"/", "\\">>
    ELSE <<"", "">>
\* The pattern with every from replaced by to
Converted(pattern, pair) ==
    [i \in DOMAIN pattern |-> IF pattern[i] = pair[1] THEN pair[2] ELSE pattern[i]]
ConvertedAll(patterns, pair) == [k \in DOMAIN patterns |-> Converted(patterns[k], pair)]
\* Run is in one of the three passes that look at the file system
InFilesystemPass == pc \in {"paths", "stylesheets", "content"}

\* C26: while the file-existence check, the stylesheet resolution or the
\* directory content comparison of a script runs, convertFrom and convertTo
\* and the ignore patterns are those its target OS and the running OS
\* determine, the empty pair and the configured patterns when the two match.
C26_ConversionFitsTheScript ==
    InFilesystemPass =>
        LET pair == ExpectedPair(Script.TargetOS, runtimeOS)
        IN  /\ <<convertFrom, convertTo>> = pair
            /\ ignores.Global = ConvertedAll(params.IgnorePatterns.Global, pair)
            /\ ignores.StyleSheetsFolder
                   = ConvertedAll(params.IgnorePatterns.StyleSheetsFolder, pair)

PassHeadings ==
    <<"SCRIPT SYNTAX CHECK", "FILE SYSTEM REFERENCES CHECK", "DIRECTORY CONTENT CHECK">>
\* The headings of the passes, as the log has them
Headings ==
    SelectSeq(log, LAMBDA r : \E p \in DOMAIN PassHeadings : r.msg = PassHeadings[p])
\* The log from the last heading msg on
SinceLast(msg) ==
    IF Reports(msg) = {} THEN <<>> ELSE SubSeq(log, Max(Reports(msg)), Len(log))
\* The reports of the file-existence pass of the script named f
ExistenceReports(rs, f) ==
    SelectSeq(rs, LAMBDA r :
        /\ r.file = f
        /\ r.msg \in {"'{s}' line '{ln}' is valid: file path '{fp}' exists",
                      "'{s}' line '{ln}' is invalid: '{fp}' not found on file system"})
\* The manifests the stylesheet pass has tried to open
ManifestReports(rs) ==
    SelectSeq(rs, LAMBDA r : r.msg \in {"Error opening '{f}': {err}",
                                        "Read '{n}' lines from '{f}'"})

C28_FinishedEntriesAreFrozen ==
    [][\A k \in 1..(idx - 1) :
           LET f == params.Scripts[k].Filename
           IN  /\ f \in DOMAIN analysisResult'
               /\ analysisResult'[f] = analysisResult[f]]_vars

\* ------------------------------------------------------------------
\* FilePathMap.Paths with its error result

\* FilePathMap.Paths: the map is built key by key, and the path type is
\* looked at for each key that is visited
FilePathMapPaths(fpm, pathType) ==
    IF DOMAIN fpm # {} /\ pathType \notin {"relative", "absolute"}
    THEN [isNil |-> TRUE, paths |-> EmptyMap, err |-> TRUE]
    ELSE [isNil |-> FALSE,
          paths |-> [key \in DOMAIN fpm |->
                        IF pathType = "relative" THEN fpm[key].RelativePath
                        ELSE fpm[key].AbsolutePath],
          err   |-> FALSE]

\* fpm.Paths(pathType) is called
CallPaths ==
    /\ call.state = "ready"
    /\ LET r == FilePathMapPaths(call.fpm, call.pathType)
       IN  call' = [state |-> "returned", fpm |-> call.fpm, pathType |-> call.pathType,
                    isNil |-> r.isNil, paths |-> r.paths, err |-> r.err]
    /\ UNCHANGED <<env, analysisResult, scriptExecutables, currentScriptTargetOS,
                   convertFrom, convertTo, ignores, pc, idx, lineNumber, log>>

\* A FilePathMap of up to MaxPathKeys entries and a path type
InitPaths ==
    /\ \E keys \in SUBSET (1..MaxPathKeys), pathType \in {"relative", "absolute", "invalid", ""} :
       \E fpm \in [keys -> {[RelativePath |-> <<"a">>, AbsolutePath |-> <<"d", "/", "a">>],
                            [RelativePath |-> <<"d">>, AbsolutePath |-> <<"/", "d">>]}] :
           call = [state |-> "ready", fpm |-> fpm, pathType |-> pathType]
    /\ params = [PathParameters |-> <<>>, Scripts |-> <<>>, IgnorePatterns |-> NoIgnores]
    /\ runtimeOS = "linux"
    /\ scriptFiles = [n \in FileNames |-> NoFile]
    /\ manifests = NoManifests
    /\ tree = EmptyTree
    /\ analysisResult = EmptyMap
    /\ scriptExecutables = EmptyMap
    /\ currentScriptTargetOS = ""
    /\ convertFrom = ""
    /\ convertTo = ""
    /\ ignores = NoIgnores
    /\ pc = "call"
    /\ idx = 1
    /\ lineNumber = 0
    /\ log = <<>>

\* FilePathMap.Paths on its own
SpecPaths == InitPaths /\ [][CallPaths]_vars

\* C29: for every FilePathMap, the empty one included, Paths returns a nil
\* map and an error when the path type is neither 'relative' nor
\* 'absolute', and otherwise a map with exactly the keys of the receiver,
\* each with its RelativePath or AbsolutePath, and no error.
C29_PathsChecksItsType ==
    call.state = "returned" =>
        IF call.pathType \in {"relative", "absolute"}
        THEN /\ ~call.err
             /\ ~call.isNil
             /\ DOMAIN call.paths = DOMAIN call.fpm
             /\ \A k \in DOMAIN call.fpm :
                    call.paths[k] = IF call.pathType = "relative"
                                    THEN call.fpm[k].RelativePath
                                    ELSE call.fpm[k].AbsolutePath
        ELSE call.err /\ call.isNil

\* ------------------------------------------------------------------
\* checkStylesheetPaths step by step: the manifests it opens and reads

\* The import definition the loop has in hand
CurrentImport == call.styleSheetImport[call.current]
\* The repository entry the manifest of an import definition is
ManifestNode(def) == Resolve(ReplaceAll(def.InputFile, convertFrom, convertTo), runtimeOS)

\* checkStylesheetPaths, lines 47-61, with the first failure to open a
\* manifest ending the loop
OpenManifestAborting ==
    /\ call.state = "range"
    /\ \E k \in DOMAIN call.styleSheetImport \ call.visited :
           LET def == call.styleSheetImport[k]
           IN  IF ~StatOK(tree, ManifestNode(def))
               THEN /\ log' = log \o processImport(def, tree, manifests, convertFrom,
                                                   convertTo, ignores, runtimeOS)
                    /\ call' = [call EXCEPT !.visited = DOMAIN call.styleSheetImport]
               ELSE /\ call' = [call EXCEPT !.state = "opened", !.current = k,
                                            !.open = Append(@, ManifestNode(def))]
                    /\ log' = log
    /\ UNCHANGED <<env, analysisResult, scriptExecutables, currentScriptTargetOS,
                   convertFrom, convertTo, ignores, pc, idx, lineNumber>>

\* checkStylesheetPaths, lines 47-61: the range takes an import definition
\* that it has not visited and opens its manifest; a manifest that cannot be
\* opened is reported and the loop goes on, one that can stays open until the
\* function returns
OpenManifest ==
    /\ call.state = "range"
    /\ \E k \in DOMAIN call.styleSheetImport \ call.visited :
           LET def == call.styleSheetImport[k]
           IN  IF ~StatOK(tree, ManifestNode(def))
               THEN /\ log' = log \o processImport(def, tree, manifests, convertFrom,
                                                   convertTo, ignores, runtimeOS)
                    /\ call' = [call EXCEPT !.visited = @ \cup {k}]
               ELSE /\ call' = [call EXCEPT !.state = "opened", !.current = k,
                                            !.open = Append(@, ManifestNode(def))]
                    /\ log' = log
    /\ UNCHANGED <<env, analysisResult, scriptExecutables, currentScriptTargetOS,
                   convertFrom, convertTo, ignores, pc, idx, lineNumber>>

\* checkStylesheetPaths, lines 63-103: the manifest is read, its references
\* are recorded and checked, and the loop goes on
ReadManifest ==
    /\ call.state = "opened"
    /\ log' = log \o processImport(CurrentImport, tree, manifests, convertFrom, convertTo,
                                   ignores, runtimeOS)
    /\ LET node  == ManifestNode(CurrentImport)
           lines == IF tree[node] = "file" THEN manifests[node] ELSE <<>>
           refs  == xmlFilesReferences(lines, CurrentImport.XMLsFilepath, convertFrom,
                                       convertTo, runtimeOS)
       IN  call' = [call EXCEPT !.state = "range",
                                !.visited = @ \cup {call.current},
                                !.refs = [k \in DOMAIN @ \cup {call.current} |->
                                             IF k = call.current THEN refs ELSE @[k]]]
    /\ UNCHANGED <<env, analysisResult, scriptExecutables, currentScriptTargetOS,
                   convertFrom, convertTo, ignores, pc, idx, lineNumber>>

\* checkStylesheetPaths returns: the deferred calls of file.Close run
ReturnStylesheets ==
    /\ call.state = "range"
    /\ call.visited = DOMAIN call.styleSheetImport
    /\ call' = [call EXCEPT !.state = "returned", !.open = <<>>]
    /\ UNCHANGED <<env, analysisResult, scriptExecutables, currentScriptTargetOS,
                   convertFrom, convertTo, ignores, pc, idx, lineNumber, log>>

NextStylesheets == OpenManifest \/ ReadManifest \/ ReturnStylesheets

\* The import definitions a script can hold: manifest a, manifest d/a, a
\* directory named as manifest, and a Windows spelling of the folder
ImportDefs ==
    { [InputFile |-> <<"a">>, XMLsFilepath |-> <<"d", Slash>>],
      [InputFile |-> <<"d", Slash, "a">>, XMLsFilepath |-> <<"d">>],
      [InputFile |-> <<"d">>, XMLsFilepath |-> <<"d">>],
      [InputFile |-> <<"a">>, XMLsFilepath |-> <<"d", Backslash>>] }

\* The lines a manifest is made of
ManifestLineSet ==
    { <<"x", ",", " ", "a">>, <<"x">>, <<>>, <<"x", ",", "d", " ", ",", "y">> }

\* The repositories the manifests lie in
StylesheetTrees ==
    { [n \in Nodes |-> CASE n = <<>>         -> "dir"
                         [] n = <<"a">>      -> "file"
                         [] n = <<"d">>      -> "dir"
                         [] n = <<"d", "a">> -> "file"
                         [] OTHER            -> "absent"],
      [n \in Nodes |-> CASE n = <<>>         -> "dir"
                         [] n = <<"a">>      -> "file"
                         [] n = <<"d">>      -> "dir"
                         [] n = <<"d", "d">> -> "file"
                         [] OTHER            -> "absent"],
      [n \in Nodes |-> CASE n = <<>>         -> "dir"
                         [] n = <<"d">>      -> "dir"
                         [] n = <<"d", "a">> -> "file"
                         [] OTHER            -> "absent"] }

\* checkStylesheetPaths is called with the import definitions of a script,
\* keyed by the lines they stand on
InitStylesheets ==
    /\ \E keys \in SUBSET {1, 2} : \E ssi \in [keys -> ImportDefs] :
           call = [state |-> "range", styleSheetImport |-> ssi, visited |-> {},
                   current |-> 0, open |-> <<>>, refs |-> EmptyMap]
    /\ \E m \in SeqsUpTo(ManifestLineSet, MaxManifestLines) :
           manifests = [n \in Nodes |-> IF n = <<"a">> THEN m
                                        ELSE IF n = <<"d", "a">> THEN <<<<"x", ",", "a">>>>
                                        ELSE <<>>]
    /\ tree \in StylesheetTrees
    /\ \E pair \in {<<"", "">>, <<Backslash, Slash>>} :
           convertFrom = pair[1] /\ convertTo = pair[2]
    /\ params = [PathParameters |-> <<>>, Scripts |-> <<>>, IgnorePatterns |-> NoIgnores]
    /\ runtimeOS = "linux"
    /\ scriptFiles = [n \in FileNames |-> NoFile]
    /\ analysisResult = EmptyMap
    /\ scriptExecutables = EmptyMap
    /\ currentScriptTargetOS = ""
    /\ ignores = NoIgnores
    /\ pc = "call"
    /\ idx = 1
    /\ lineNumber = 0
    /\ log = <<>>

\* checkStylesheetPaths on its own
SpecStylesheets == InitStylesheets /\ [][NextStylesheets]_vars

\* C30: while checkStylesheetPaths works through the import definitions of
\* a script, at most one manifest is open at any time.
C30_AtMostOneManifestOpen == Len(call.open) <= 1

\* ------------------------------------------------------------------
\* The notions the statements about the stylesheet manifests are written in

\* The lines of the manifest of the import definition at key k
ManifestOf(k) == manifests[ManifestNode(call.styleSheetImport[k])]
\* The places of the commas of a line
CommasOf(l) == {i \in 1..Len(l) : l[i] = ","}
\* What stands between the first comma of a line and the next one
SecondColumn(l) ==
    LET first == Min(CommasOf(l))
        later == {i \in CommasOf(l) : i > first}
    IN  SubSeq(l, first + 1, IF later = {} THEN Len(l) ELSE Min(later) - 1)
MalformedMsg == "Line '{l}' is of invalid format"

\* C21: for every manifest that has been read, an entry is recorded at line
\* number n exactly when line n is not empty and has two or more
\* comma-separated columns; its relative path is the second column without
\* the surrounding white space, its absolute path the join of the converted
\* XMLsFilepath and that name; every line with fewer columns is reported as
\* malformed, no other line is, and the lines after it are still taken.
C21_ManifestEntries ==
    \A k \in DOMAIN call.refs :
        LET def   == call.styleSheetImport[k]
            lines == ManifestOf(k)
        IN  /\ DOMAIN call.refs[k]
                   = {n \in 1..Len(lines) : lines[n] # <<>> /\ CommasOf(lines[n]) # {}}
            /\ \A n \in DOMAIN call.refs[k] :
                   /\ call.refs[k][n].RelativePath = TrimSpace(SecondColumn(lines[n]))
                   /\ call.refs[k][n].AbsolutePath
                          = Join(ReplaceAll(def.XMLsFilepath, convertFrom, convertTo),
                                 TrimSpace(SecondColumn(lines[n])), runtimeOS)
            /\ \A n \in 1..Len(lines) :
                   CommasOf(lines[n]) = {}
                       => \E i \in Reports(MalformedMsg) : log[i].val = lines[n]
            /\ \A i \in Reports(MalformedMsg) : CommasOf(log[i].val) = {}
            /\ \E i \in Reports("Read '{n}' lines from '{f}'") : log[i].ln = Len(lines)

\* A manifest has been read whose first line is malformed and whose second
\* line gives an entry, with a folder whose separator had to be converted
\* and a name that had to be trimmed
C21_Witness ==
    \E k \in DOMAIN call.refs :
        /\ DOMAIN call.refs[k] = {2}
        /\ Len(ManifestOf(k)) = 2
        /\ ManifestOf(k)[2] = <<"x", ",", " ", "a">>
        /\ call.styleSheetImport[k].XMLsFilepath = <<"d", Backslash>>
        /\ convertFrom = Backslash
        /\ call.refs[k][2] = [RelativePath |-> <<"a">>, AbsolutePath |-> <<"d", Slash, "a">>]
        /\ Reports(MalformedMsg) # {}

\* The import definitions whose manifest cannot be opened, those whose
\* manifest is opened but cannot be read, and the others
Unopenable == {k \in DOMAIN call.styleSheetImport :
                  ~StatOK(tree, ManifestNode(call.styleSheetImport[k]))}
Unreadable == {k \in DOMAIN call.styleSheetImport \ Unopenable :
                  tree[ManifestNode(call.styleSheetImport[k])] # "file"}
Resolvable == DOMAIN call.styleSheetImport \ (Unopenable \cup Unreadable)
ExistenceMsgs ==
    {"'{s}' line '{ln}' is valid: file path '{fp}' exists",
     "'{s}' line '{ln}' is invalid: '{fp}' not found on file system"}

\* C22: when checkStylesheetPaths has returned, there is one 'Error opening'
\* report for each import definition whose manifest cannot be opened and one
\* 'Error reading' report for each whose manifest cannot be read, and every
\* other import definition has been resolved: each of its references has its
\* file-existence report and its folder has been compared once - in whatever
\* order the definitions were visited.
C22_OneFailureLeavesTheOthers ==
    call.state = "returned" =>
        /\ Cardinality(Reports("Error opening '{f}': {err}")) = Cardinality(Unopenable)
        /\ Cardinality(Reports("Error reading '{f}': {err}")) = Cardinality(Unreadable)
        /\ Cardinality(Reports("'{valid}' valid lines found in script '{s}'"))
               = Cardinality(Resolvable)
        /\ \A k \in Resolvable :
               /\ k \in DOMAIN call.refs
               /\ \A n \in DOMAIN call.refs[k] :
                      \E i \in DOMAIN log :
                          /\ log[i].msg \in ExistenceMsgs
                          /\ log[i].file = call.styleSheetImport[k].InputFile
                          /\ log[i].ln = n
                          /\ log[i].val = call.refs[k][n].AbsolutePath

\* checkStylesheetPaths has returned after a manifest that could not be
\* opened, taken first, and a manifest with a reference, taken after it
C22_Witness ==
    /\ call.state = "returned"
    /\ Cardinality(Unopenable) = 1
    /\ Cardinality(Resolvable) = 1
    /\ log[1].msg = "Error opening '{f}': {err}"
    /\ \E k \in Resolvable : DOMAIN call.refs[k] # {}

\* C24: the report lines of a run are the same on every run: what
\* checkStylesheetPaths has logged for the import definitions of a script is
\* what it logs in every order in which the map of import definitions can be
\* ranged over.
C24_ReportOrderIsFixed ==
    call.state = "returned" =>
        \A order \in Orders(DOMAIN call.styleSheetImport) :
            log = checkStylesheetPaths(order, call.styleSheetImport, tree, manifests,
                                       convertFrom, convertTo, ignores, runtimeOS)

\* ------------------------------------------------------------------
\* src/main.go: main and run

\* validateConfig: the first rule a configuration breaks
validateConfig(c) ==
    IF Len(c.Scripts) = 0 THEN <<"'scripts' list cannot be empty">>
    ELSE IF \E i \in DOMAIN c.Scripts :
                /\ \A j \in 1..(i - 1) : /\ c.Scripts[j].Filename # ""
                                         /\ c.Scripts[j].TargetOS \in {"windows", "linux"}
                /\ c.Scripts[i].Filename = ""
    THEN <<"script at index %d is missing 'filename'">>
    ELSE IF \E i \in DOMAIN c.Scripts :
                /\ \A j \in 1..(i - 1) : c.Scripts[j].TargetOS \in {"windows", "linux"}
                /\ c.Scripts[i].TargetOS = ""
    THEN <<"script '%s' is missing 'target_os'">>
    ELSE IF \E i \in DOMAIN c.Scripts : c.Scripts[i].TargetOS \notin {"windows", "linux"}
    THEN <<"script '%s' has invalid 'target_os': '%s' (must be 'windows' or 'linux')">>
    ELSE IF c.SourceCodeRoot = "" THEN <<"'source_code_root' is required">>
    ELSE IF Len(c.PathParameters) = 0 THEN <<"'path_parameters' list cannot be empty">>
    ELSE NoError

\* getConfig: the error it returns for a configuration file
getConfig(file) ==
    IF file.kind = "missing" THEN <<"configuration file '%s' not found">>
    ELSE IF file.kind = "unreadable" THEN <<"error reading configuration file '%s': %w">>
    ELSE IF file.kind = "tabs" THEN <<"invalid YAML in '%s': file contains tabs">>
    ELSE IF file.kind = "malformed" THEN <<"invalid YAML format in '%s': %w">>
    ELSE IF validateConfig(file.config) # NoError
    THEN <<"configuration validation failed in '%s': %w">>
    ELSE NoError

\* run, line 29: ProcessArgs parses the command line with a flag set that
\* exits on error: status 2 for a flag it does not know, status 0 after -h
ProcessArgs ==
    /\ call.state = "start"
    /\ call' = IF call.argv = "unknownFlag" THEN [call EXCEPT !.state = "exited", !.exit = 2]
               ELSE IF call.argv = "help" THEN [call EXCEPT !.state = "exited", !.exit = 0]
               ELSE [call EXCEPT !.state = "config"]
    /\ UNCHANGED <<env, analysisResult, scriptExecutables, currentScriptTargetOS,
                   convertFrom, convertTo, ignores, pc, idx, lineNumber, log>>

\* run, lines 31-34, and main, lines 21-25: the configuration is loaded; an
\* error is printed and the process exits with status 1
LoadConfig ==
    /\ call.state = "config"
    /\ call' = IF getConfig(call.file) # NoError
               THEN [call EXCEPT !.state = "exited", !.exit = 1]
               ELSE [call EXCEPT !.state = "logger", !.loaded = TRUE]
    /\ UNCHANGED <<env, analysisResult, scriptExecutables, currentScriptTargetOS,
                   convertFrom, convertTo, ignores, pc, idx, lineNumber, log>>

\* run, lines 36-40: the logger is set up; it fails only when a log file is
\* configured and cannot be opened
InitLogger ==
    /\ call.state = "logger"
    /\ call' = IF call.file.config.Logfile # "" /\ ~call.logfileOpens
               THEN [call EXCEPT !.state = "exited", !.exit = 1]
               ELSE [call EXCEPT !.state = "analysis", !.logging = TRUE]
    /\ UNCHANGED <<env, analysisResult, scriptExecutables, currentScriptTargetOS,
                   convertFrom, convertTo, ignores, pc, idx, lineNumber, log>>

\* run, line 42: analyzer.Run reports what it finds to the log and returns
\* nothing
RunAnalyzer ==
    /\ call.state = "analysis"
    /\ \E n \in 0..MaxFindings :
           call' = [call EXCEPT !.state = "analysed", !.started = TRUE, !.findings = n]
    /\ UNCHANGED <<env, analysisResult, scriptExecutables, currentScriptTargetOS,
                   convertFrom, convertTo, ignores, pc, idx, lineNumber, log>>

\* run returning an error when the analysis has reported findings
MainReturnFailingOnFindings ==
    /\ call.state = "analysed"
    /\ call' = [call EXCEPT !.state = "exited", !.logging = FALSE,
                            !.exit = IF call.findings > 0 THEN 1 ELSE 0]
    /\ UNCHANGED <<env, analysisResult, scriptExecutables, currentScriptTargetOS,
                   convertFrom, convertTo, ignores, pc, idx, lineNumber, log>>

\* run, lines 40-43: the logger is closed, run returns nil and main returns
MainReturn ==
    /\ call.state = "analysed"
    /\ call' = [call EXCEPT !.state = "exited", !.logging = FALSE, !.exit = 0]
    /\ UNCHANGED <<env, analysisResult, scriptExecutables, currentScriptTargetOS,
                   convertFrom, convertTo, ignores, pc, idx, lineNumber, log>>

NextMain == ProcessArgs \/ LoadConfig \/ InitLogger \/ RunAnalyzer \/ MainReturn

\* What the configuration file can be: not there, not readable, with a tab,
\* not YAML, or a configuration
ConfigFiles ==
    LET none == [Scripts |-> <<>>, SourceCodeRoot |-> "", PathParameters |-> <<>>,
                 Logfile |-> ""]
    IN  {[kind |-> k, config |-> none] : k \in {"missing", "unreadable", "tabs", "malformed"}}
        \cup {[kind |-> "yaml", config |-> c] :
                 c \in [Scripts        : SeqsUpTo({[Filename |-> "deploy.sh", TargetOS |-> "linux"],
                                                   [Filename |-> "deploy.bat", TargetOS |-> "windows"],
                                                   [Filename |-> "", TargetOS |-> "linux"],
                                                   [Filename |-> "deploy.sh", TargetOS |-> ""],
                                                   [Filename |-> "deploy.sh", TargetOS |-> "solaris"]},
                                                  MaxScripts),
                        SourceCodeRoot : {"", "repo"},
                        PathParameters : {<<>>, <<"R">>},
                        Logfile        : {"", "run.log"}]}

\* The process starts with a command line, a configuration file and a log
\* file that can be opened or cannot
InitMain ==
    /\ \E argv \in {"ok", "unknownFlag", "help"}, file \in ConfigFiles, opens \in BOOLEAN :
           call = [state |-> "start", argv |-> argv, file |-> file, logfileOpens |-> opens,
                   loaded |-> FALSE, logging |-> FALSE, started |-> FALSE,
                   findings |-> 0, exit |-> -1]
    /\ params = [PathParameters |-> <<>>, Scripts |-> <<>>, IgnorePatterns |-> NoIgnores]
    /\ runtimeOS = "linux"
    /\ scriptFiles = [n \in FileNames |-> NoFile]
    /\ manifests = NoManifests
    /\ tree = EmptyTree
    /\ analysisResult = EmptyMap
    /\ scriptExecutables = EmptyMap
    /\ currentScriptTargetOS = ""
    /\ convertFrom = ""
    /\ convertTo = ""
    /\ ignores = NoIgnores
    /\ pc = "call"
    /\ idx = 1
    /\ lineNumber = 0
    /\ log = <<>>

\* The process from its start to its exit
SpecMain == InitMain /\ [][NextMain]_vars

\* The configuration file holds a configuration that passes validation
ConfigLoads ==
    /\ call.file.kind = "yaml"
    /\ LET c == call.file.config
       IN  /\ c.Scripts # <<>>
           /\ \A i \in DOMAIN c.Scripts : /\ c.Scripts[i].Filename # ""
                                          /\ c.Scripts[i].TargetOS \in {"windows", "linux"}
           /\ c.SourceCodeRoot # ""
           /\ c.PathParameters # <<>>
\* The logger can be set up: no log file is asked for, or it can be opened
LoggerOpens == call.file.config.Logfile = "" \/ call.logfileOpens
Exited == call.state = "exited"

====
